---- MODULE Spec2Model ----
(***************************************************************************)
(* The StreamProcessor audio worklet of wavtools (lib/worklets/            *)
(* stream_processor.js as bundled): the port's message handler, writeData, *)
(* the process() render callback, determinePlaybackRate and                *)
(* resampleAudioData.                                                      *)
(*                                                                         *)
(* Numbers.  A playback rate, an affordance and a smoothing factor are     *)
(* exact rationals [n, d] in lowest terms with d > 0 (the arithmetic of    *)
(* the doubles without their rounding).  A queued sample int16/0x8000 and  *)
(* an output sample are integers counting units of 1/(0x8000*bufferLength),*)
(* which is exact for the decode and for the one linear interpolation the  *)
(* resampler applies to it.                                                *)
(***************************************************************************)
EXTENDS Integers, Sequences, FiniteSets, TLC

\* ---------------------------------------------------------------- bounds
\* commands of each kind handled in one session
MaxWrites == 3
MaxConfigures == 2
MaxRequests == 2
\* commands of any kind handled in one session
MaxCommands == 4

\* commands one player posts to its worklet nodes, all nodes together
MaxPosted == 3

\* output quanta one worklet node of a player writes
MaxPlayed == 1

\* output quanta credited to the tracks in one session of the segmenting revision
\* (a unit it reads to the end on a quantum boundary is played again and again)
MaxQuanta == 4

\* the longest array handed to the segmenting writeData on its own
MaxSegmentInput == 5

\* the largest availableSamples handed to determinePlaybackRate on its own
MaxAvailable == 300

\* a utility function called on its own: the longest input array, the largest
\* target length, and the largest denominator of a sample value k/d
MaxInput == 3
MaxTarget == 4
MaxDenominator == 10

\* ------------------------------------------------------------- constants
\* this.bufferLength, and the length of the quantum the host hands to process()
bufferLength == 128
\* 0x8000: the divisor of the Int16 -> Float32 conversion, the scale of s < 0
Int16Scale == 32768
\* 0x7fff: the scale of s >= 0 in floatTo16BitPCM
Int16Max == 32767

\* ------------------------------------------------------------- rationals
RECURSIVE Gcd(_, _)
Gcd(a, b) == IF b = 0 THEN a ELSE Gcd(b, a % b)

Abs(x) == IF x < 0 THEN -x ELSE x

Min(a, b) == IF a <= b THEN a ELSE b

Max(a, b) == IF a >= b THEN a ELSE b

\* n/d in lowest terms, d > 0  (den # 0)
Rat(num, den) ==
  LET s == IF den < 0 THEN -1 ELSE 1
      g == Gcd(Abs(num), Abs(den))
  IN [n |-> (s * num) \div g, d |-> (s * den) \div g]

RInt(k) == [n |-> k, d |-> 1]

RAdd(a, b) ==
  LET g == Gcd(a.d, b.d)
  IN Rat(a.n * (b.d \div g) + b.n * (a.d \div g), (a.d \div g) * b.d)

RNeg(a) == [n |-> -a.n, d |-> a.d]

RSub(a, b) == RAdd(a, RNeg(b))

RMul(a, b) ==
  LET g1 == Gcd(Abs(a.n), b.d)
      g2 == Gcd(Abs(b.n), a.d)
  IN Rat((a.n \div g1) * (b.n \div g2), (a.d \div g2) * (b.d \div g1))

\* 1/a  (a # 0)
RInv(a) == Rat(a.d, a.n)

RLe(a, b) == a.n * b.d <= b.n * a.d

RLt(a, b) == a.n * b.d < b.n * a.d

RMin(a, b) == IF RLe(a, b) THEN a ELSE b

RMax(a, b) == IF RLe(b, a) THEN a ELSE b

\* Math.floor of a rational
RFloor(a) == a.n \div a.d

RAbs(a) == [n |-> Abs(a.n), d |-> a.d]

\* the integer part, towards zero
RTrunc(a) == IF a.n >= 0 THEN a.n \div a.d ELSE -((-a.n) \div a.d)


\* ----------------------------------------------------------------- state
VARIABLES
  hasStarted,                 \* this.hasStarted
  hasInterrupted,             \* this.hasInterrupted
  outputBuffers,              \* this.outputBuffers: <<[trackId, buffer, isSilence]>>
  writeTrackId,               \* this.writeTrackId
  playbackRateMin,            \* configuration
  playbackRateMax,
  playbackRateAffordance,
  playbackSmoothing,
  playbackSkipDigitalSilence,
  playbackMinBuffers,
  playbackRate,               \* this.playbackRate, the smoothed rate
  playbackOutputOffset,       \* this.playbackOutputOffset, index into the head unit
  isInPlayback,               \* this.isInPlayback
  trackSampleOffsets,         \* this.trackSampleOffsets (a missing key reads as 0)
  running,                    \* the host still calls process(): it has not returned false
  hung,                       \* a process() call is inside a loop it cannot leave
  port,                       \* the messages the latest handler or render posted
  quantum,                    \* what the latest process() call did to its output quantum
  session,                    \* history: counts of commands and stop events, the latest
                              \* step, whether an interrupt command was handled,
                              \* the offsets reported for each track, in order,
                              \* the track of the sample last written to an output,
                              \* the samples delivered by write commands for each
                              \* track, and the sum of the data fields of the audio
                              \* events
  call,                       \* a call of one of the utility functions on its own:
                              \* its arguments and, once it returned, its result
  player,                     \* the WavStreamPlayer that owns the worklet node
  recorder                    \* a WavRecorder, its AudioProcessor worklet nodes and
                              \* the messages between them

config == <<playbackRateMin, playbackRateMax, playbackRateAffordance,
            playbackSmoothing, playbackSkipDigitalSilence, playbackMinBuffers>>

playback == <<hasStarted, outputBuffers, playbackRate, playbackOutputOffset,
              isInPlayback, trackSampleOffsets>>

vars == <<hasStarted, hasInterrupted, outputBuffers, writeTrackId, playbackRateMin,
          playbackRateMax, playbackRateAffordance, playbackSmoothing,
          playbackSkipDigitalSilence, playbackMinBuffers, playbackRate,
          playbackOutputOffset, isInPlayback, trackSampleOffsets, running, hung,
          port, quantum, session, call,
                 player, recorder>>

\* ---------------------------------------------------------------- inputs
\* null / undefined track id (falsy)
NoTrack == "null"

Tracks == {"a", "b"}

\* Int16 payloads: n non-zero samples, n zero samples
Tone(n) == [i \in 1..n |-> i]

Zeros(n) == [i \in 1..n |-> 0]

WritePayloads ==
  { [buffer |-> <<>>,       trackId |-> "a"],
    [buffer |-> Tone(64),   trackId |-> "a"],
    [buffer |-> Tone(192),  trackId |-> "b"],
    [buffer |-> Zeros(192), trackId |-> "b"] }

\* payload.config of a configure command: a partial configuration object
ConfigPayloads ==
  { [playbackMinBuffers |-> 1],
    [playbackMinBuffers |-> 1, playbackSkipDigitalSilence |-> FALSE],
    [playbackSkipDigitalSilence |-> TRUE],
    [playbackRateMin |-> Rat(1, 2), playbackRateMax |-> RInt(2),
     playbackRateAffordance |-> Rat(1, 2), playbackSmoothing |-> Rat(1, 2)],
    [playbackRateMin |-> RInt(2), playbackRateMax |-> RInt(2)] }

\* the commands that ask for an offset: event and payload.trackId (absent or given)
RequestPayloads ==
  { [event |-> "offset",    trackId |-> NoTrack],
    [event |-> "offset",    trackId |-> "a"],
    [event |-> "interrupt", trackId |-> NoTrack] }

\* event names the handler has no branch for
OtherEvents == {"flush"}

\* ----------------------------------------------------------- constructor
\* no utility function is being looked at on its own
NoCall == [fn |-> "none"]

NoQuantum ==
  [kind |-> "none", output |-> <<>>, samplesRead |-> 0, samplesMoved |-> 0,
   samplesWritten |-> 0, consumableSamples |-> 0, consumed |-> FALSE,
   hadStarted |-> FALSE, wasInPlayback |-> FALSE, needed |-> 0,
   reads |-> <<>>, skipped |-> <<>>, rateTarget |-> RInt(1),
   credit |-> [t \in Tracks |-> 0], available |-> 0]

\* the fields the constructor sets
Constructed ==
  /\ hasStarted = FALSE
  /\ hasInterrupted = FALSE
  /\ outputBuffers = <<>>
  /\ writeTrackId = NoTrack
  /\ playbackRateMin = RInt(1)
  /\ playbackRateMax = RInt(1)
  /\ playbackRateAffordance = Rat(2, 10)
  /\ playbackSmoothing = Rat(9, 10)
  /\ playbackSkipDigitalSilence = TRUE
  /\ playbackMinBuffers = 16
  /\ playbackRate = RInt(1)
  /\ playbackOutputOffset = 0
  /\ isInPlayback = FALSE
  /\ trackSampleOffsets = [t \in Tracks |-> 0]
  /\ running = TRUE
  /\ hung = FALSE
  /\ port = <<>>
  /\ quantum = NoQuantum
  /\ session = [writes |-> 0, configures |-> 0, requests |-> 0, stops |-> 0,
                last |-> "constructor", interrupted |-> FALSE,
                reported |-> [t \in Tracks \cup {NoTrack} |-> <<>>],
                playing |-> NoTrack,
                delivered |-> [t \in Tracks \cup {NoTrack} |-> 0], moved |-> 0]

\* a WavStreamPlayer after connect(): one worklet node started, nothing posted.
\*   stream: this.stream is a node; engines: the nodes _start() has created;
\*   interruptedTrackIds and trackSampleOffsets (responses stored by request) as in
\*   the class; waiting: the getTrackSampleOffset calls polling for their response;
\*   posted: the commands posted to the port of this.stream, in order;
\*   resolved: the trackIds interrupt() has returned; dropped: the
\*   trackIds for which add16BitPCM has returned without posting; sent: the
\*   postMessage calls made so far; barred: the last-written tracks at the calls
\*   of interrupt(); late: the positions in posted of the writes passed to
\*   add16BitPCM for a track already barred; configured: the config objects
\*   configure() has posted; notConnected: configure() has thrown "Not connected"
ConnectedPlayer ==
  [stream |-> TRUE, engines |-> 1, interruptedTrackIds |-> {},
   trackSampleOffsets |-> {}, waiting |-> {}, posted |-> <<>>, resolved |-> {},
   dropped |-> {}, sent |-> 0, barred |-> {}, late |-> {}, configured |-> {},
   notConnected |-> FALSE]

\* nothing thrown
NoError == "none"

\* new WavRecorder({debug}), with the worklet nodes begin() creates and the
\* messages on their ports.
\*   debug, stream (this.stream is a MediaStream), recording, lastEventId and
\*   eventReceipts (the ids that have a receipt stored) as in the class;
\*   processor: 0 for null, else the index in nodes of this.processor;
\*   nodes: the AudioProcessor of each AudioWorkletNode created, with connected
\*   for its input still being attached; inbox: the messages posted to the
\*   nodes and not yet received; outbox: the receipts the nodes posted and the
\*   recorder has not yet handled; pending: the calls waiting on an await;
\*   calls: the methods invoked so far; last: the latest method invoked and what
\*   it threw before its first await; rejected: what calls threw later
WavRecorder(debug) ==
  [debug |-> debug, stream |-> FALSE, processor |-> 0, recording |-> FALSE,
   lastEventId |-> 0, eventReceipts |-> {}, nodes |-> <<>>, inbox |-> <<>>,
   outbox |-> <<>>, pending |-> {}, calls |-> 0,
   last |-> [op |-> "constructor", error |-> NoError], rejected |-> {}]

Init ==
  /\ Constructed
  /\ call = NoCall
  /\ player = ConnectedPlayer
  /\ recorder = WavRecorder(FALSE)

\* ------------------------------------------------------- message handler
\* float32Array[i] = int16Array[i] / 0x8000, in units of 1/(0x8000*bufferLength)
Int16ToFloat32(int16Array) ==
  [i \in 1..Len(int16Array) |-> int16Array[i] * bufferLength]

\* the scan of writeData: is every sample 0
IsSilence(float32Array) ==
  \A i \in 1..Len(float32Array) : float32Array[i] = 0

writeData(float32Array, trackId) ==
  Append(outputBuffers,
         [trackId |-> trackId, buffer |-> float32Array,
          isSilence |-> IsSilence(float32Array)])

\* trackSampleOffsets[trackId] || 0
OffsetOf(trackId) ==
  IF trackId \in DOMAIN trackSampleOffsets THEN trackSampleOffsets[trackId] ELSE 0

\* the commands handled so far
Commands == session.writes + session.configures + session.requests

\* (variant: the request's own trackId is not looked at)
RequestTrackIdOfWrite(payloadTrackId) ==
  writeTrackId

\* payload.trackId || this.writeTrackId
RequestTrackId(payloadTrackId) ==
  IF payloadTrackId # NoTrack THEN payloadTrackId ELSE writeTrackId

\* (variant: the flag follows the latest command)
InterruptedAfterLatest(event) ==
  event = "interrupt"

\* if (payload.event === 'interrupt') this.hasInterrupted = true
InterruptedAfter(event) ==
  IF event = "interrupt" THEN TRUE ELSE hasInterrupted

\* { ...current, ...payload.config }: a field of the payload wins, else the current value
Merged(cfg, field, current) ==
  IF field \in DOMAIN cfg THEN cfg[field] ELSE current

Write(payload) ==
  /\ ~hung
  /\ session.writes < MaxWrites
  /\ Commands < MaxCommands
  /\ writeTrackId' = payload.trackId
  /\ outputBuffers' = writeData(Int16ToFloat32(payload.buffer), payload.trackId)
  /\ port' = <<>>
  /\ quantum' = NoQuantum
  /\ session' = [session EXCEPT
                   !.writes = @ + 1, !.last = "write",
                   !.delivered = [@ EXCEPT ![payload.trackId] = @ + Len(payload.buffer)]]
  /\ UNCHANGED <<hasStarted, hasInterrupted, config, playbackRate,
                 playbackOutputOffset, isInPlayback, trackSampleOffsets, running, hung, call,
                 player, recorder>>

\* the 'offset' and 'interrupt' commands share one branch of the handler
OffsetOrInterrupt(event, payloadTrackId) ==
  LET requestId == session.requests + 1
      trackId == RequestTrackId(payloadTrackId)
      offset == OffsetOf(trackId)
  IN /\ ~hung
     /\ session.requests < MaxRequests
     /\ Commands < MaxCommands
     /\ port' = <<[event |-> "offset", requestId |-> requestId,
                   trackId |-> trackId, offset |-> offset]>>
     /\ hasInterrupted' = InterruptedAfter(event)
     /\ quantum' = NoQuantum
     /\ session' = [session EXCEPT
                      !.requests = requestId,
                      !.last = event,
                      !.interrupted = @ \/ event = "interrupt",
                      !.reported = [@ EXCEPT ![trackId] = Append(@, offset)]]
     /\ UNCHANGED <<hasStarted, outputBuffers, writeTrackId, config, playbackRate,
                    playbackOutputOffset, isInPlayback, trackSampleOffsets, running, hung, call,
                 player, recorder>>

Configure(cfg) ==
  /\ ~hung
  /\ session.configures < MaxConfigures
  /\ Commands < MaxCommands
  /\ playbackMinBuffers' = Merged(cfg, "playbackMinBuffers", playbackMinBuffers)
  /\ playbackRateMin' = Merged(cfg, "playbackRateMin", playbackRateMin)
  /\ playbackRateMax' = Merged(cfg, "playbackRateMax", playbackRateMax)
  /\ playbackRateAffordance' = Merged(cfg, "playbackRateAffordance", playbackRateAffordance)
  /\ playbackSmoothing' = Merged(cfg, "playbackSmoothing", playbackSmoothing)
  /\ playbackSkipDigitalSilence' =
       Merged(cfg, "playbackSkipDigitalSilence", playbackSkipDigitalSilence)
  /\ port' = <<>>
  /\ quantum' = NoQuantum
  /\ session' = [session EXCEPT !.configures = @ + 1, !.last = "configure"]
  /\ UNCHANGED <<hasInterrupted, writeTrackId, playback, running, hung, call,
                 player, recorder>>

\* (variant: the handler returns without a word)
UnhandledOutcomeIgnored(event) ==
  "none"

\* else { throw new Error('Unhandled event: ' + payload.event); }
UnhandledOutcome(event) ==
  "throw"

\* a command with any other event name: the handler's last branch
Unhandled(event) ==
  /\ ~hung
  /\ event \notin {"write", "offset", "interrupt", "configure"}
  /\ port' = <<>>
  /\ quantum' = [NoQuantum EXCEPT !.kind = UnhandledOutcome(event)]
  /\ session' = [session EXCEPT !.last = event]
  /\ UNCHANGED <<hasInterrupted, writeTrackId, config, playback, running, hung, call,
                 player, recorder>>

\* ------------------------------------------------------------- utilities
\* (variant: the slow-down branch without its -0.975 floor)
determinePlaybackRateNoFloor(availableSamples, targetSamples) ==
  IF RLt(playbackRateMin, playbackRateMax)
  THEN LET samplesDelta == availableSamples - targetSamples
           ratio == Rat(samplesDelta, targetSamples)
           raw == IF RLt(RMul(playbackRateAffordance, RInt(targetSamples)),
                         RInt(Abs(samplesDelta)))
                  THEN IF samplesDelta <= 0
                       THEN RAdd(RInt(1), ratio)
                       ELSE RInv(RSub(RInt(1), RMin(Rat(975, 1000), ratio)))
                  ELSE RInt(1)
       IN RMin(playbackRateMax, RMax(playbackRateMin, raw))
  ELSE RInt(1)

determinePlaybackRate(availableSamples, targetSamples) ==
  IF RLt(playbackRateMin, playbackRateMax)
  THEN LET samplesDelta == availableSamples - targetSamples
           ratio == Rat(samplesDelta, targetSamples)
           raw == IF RLt(RMul(playbackRateAffordance, RInt(targetSamples)),
                         RInt(Abs(samplesDelta)))
                  THEN IF samplesDelta <= 0
                       THEN RAdd(RInt(1), RMax(Rat(-975, 1000), ratio))
                       ELSE RInv(RSub(RInt(1), RMin(Rat(975, 1000), ratio)))
                  ELSE RInt(1)
       IN RMin(playbackRateMax, RMax(playbackRateMin, raw))
  ELSE RInt(1)

\* originalIndex = i * (len / targetSamples) for the 0-based output index i: its
\* Math.floor (start), its Math.ceil (end) and ratio = rem / targetSamples
ResampleWindow(len, targetSamples, i) ==
  LET start == (i * len) \div targetSamples
      rem == (i * len) % targetSamples
  IN [start |-> start, rem |-> rem, end |-> IF rem = 0 THEN start ELSE start + 1]

\* if (start === end || end >= float32Array.length): just use the start value
UsesStartOnly(w, len) ==
  w.start = w.end \/ w.end >= len

\* the 0-based indices of float32Array read for the output index i
ReadIndices(len, targetSamples, i) ==
  LET w == ResampleWindow(len, targetSamples, i)
  IN IF UsesStartOnly(w, len) THEN {w.start} ELSE {w.start, w.end}

\* resampledBuffer[i] for the 0-based output index i; sequences are 1-based
ResampledAt(float32Array, targetSamples, i) ==
  LET len == Len(float32Array)
      w == ResampleWindow(len, targetSamples, i)
  IN IF UsesStartOnly(w, len)
     THEN float32Array[w.start + 1]
     ELSE (float32Array[w.start + 1] * (targetSamples - w.rem)
             + float32Array[w.end + 1] * w.rem) \div targetSamples

\* (variant: the input is handed back whatever the target length)
resampleAudioDataUnchanged(float32Array, targetSamples) ==
  float32Array

resampleAudioData(float32Array, targetSamples) ==
  IF targetSamples = Len(float32Array)
  THEN float32Array
  ELSE [i \in 1..targetSamples |-> ResampledAt(float32Array, targetSamples, i - 1)]

\* Math.max(-1, Math.min(1, float32Array[i]))
ClampedSample(x) ==
  RMax(RInt(-1), RMin(RInt(1), x))

\* (variant: one scale for both signs)
ScaledSampleSymmetric(s) ==
  RMul(s, RInt(Int16Scale))

\* s < 0 ? s * 0x8000 : s * 0x7fff
ScaledSample(s) ==
  IF RLt(s, RInt(0)) THEN RMul(s, RInt(Int16Scale)) ELSE RMul(s, RInt(Int16Max))

\* DataView.setInt16 of a number: its integer part, modulo 2^16, as a signed value
SetInt16(v) ==
  ((RTrunc(v) + Int16Scale) % (2 * Int16Scale)) - Int16Scale

\* WavPacker.floatTo16BitPCM, on an array of rational samples
floatTo16BitPCM(float32Array) ==
  [i \in 1..Len(float32Array) |-> SetInt16(ScaledSample(ClampedSample(float32Array[i])))]

\* the value int16 / 0x8000 of a decoded sample, from its integer representation
DecodedValue(float32Sample) ==
  Rat(float32Sample, Int16Scale * bufferLength)

\* ---------------------------------------------------------------- render
\* process(), the branch taken while hasInterrupted is false.

RECURSIVE TotalSamples(_, _)
\* the sum of buffer.length over units i..Len(units)
TotalSamples(units, i) ==
  IF i > Len(units) THEN 0 ELSE Len(units[i].buffer) + TotalSamples(units, i + 1)

RECURSIVE CountAfterNonSilence(_, _, _, _)
\* the skip-silence counting loop: a unit counts once we are in playback, or it is
\* not silence, or an earlier unit already counted (foundNonSilence)
CountAfterNonSilence(units, i, foundNonSilence, consumableSamples) ==
  IF i > Len(units)
  THEN consumableSamples
  ELSE IF isInPlayback \/ ~units[i].isSilence \/ foundNonSilence
       THEN CountAfterNonSilence(units, i + 1, TRUE,
                                 consumableSamples + Len(units[i].buffer))
       ELSE CountAfterNonSilence(units, i + 1, foundNonSilence, consumableSamples)

\* (variant: every queued unit counts, in playback or not)
ConsumableSamplesOfAllUnits ==
  -playbackOutputOffset + TotalSamples(outputBuffers, 1)

\* let consumableSamples = -this.playbackOutputOffset, then one of the two loops
ConsumableSamples ==
  IF playbackSkipDigitalSilence
  THEN CountAfterNonSilence(outputBuffers, 1, FALSE, -playbackOutputOffset)
  ELSE -playbackOutputOffset + TotalSamples(outputBuffers, 1)

\* the latch that lets consumption continue below the target
ConsumptionLatch ==
  IF playbackSkipDigitalSilence THEN isInPlayback ELSE hasStarted

\* (variant: the sticky hasStarted latch in both modes)
ShouldConsumeBufferSticky(consumableSamples, serverSamplesTarget) ==
  hasStarted \/ consumableSamples >= serverSamplesTarget

ShouldConsumeBuffer(consumableSamples, serverSamplesTarget) ==
  ConsumptionLatch \/ consumableSamples >= serverSamplesTarget

\* this.playbackRate * smoothing + playbackRateTarget * (1 - smoothing)
SmoothedRate(playbackRateTarget) ==
  RAdd(RMul(playbackRate, playbackSmoothing),
       RMul(playbackRateTarget, RSub(RInt(1), playbackSmoothing)))

\* skip full buffers of silence (if enabled)
SkipsUnit(unit, outputBufferOffset) ==
  playbackSkipDigitalSilence /\ unit.isSilence /\ outputBufferOffset = 0

RECURSIVE ReadUnits(_, _, _)
\* The while loop over the units, one unit per step.  st is the loop's state:
\*   index (0-based outputBufferIndex), offset (outputBufferOffset), outputBuffer (the
\*   samples read so far), samplesMoved, outputTrackId, and what was read from or
\*   skipped in which unit.  The inner for loop reads
\*   min(buffer.length - offset, needed - samplesRead) samples; it moves to the next
\*   unit exactly when it reads the unit's last sample.  A pass that reads nothing and
\*   leaves samplesRead # needed repeats with the same state for ever: stuck.
ReadUnits(units, needed, st) ==
  IF st.index >= Len(units)
  THEN st
  ELSE LET unit == units[st.index + 1]
           len == Len(unit.buffer)
       IN IF SkipsUnit(unit, st.offset)
          THEN ReadUnits(units, needed,
                 [st EXCEPT !.index = @ + 1,
                            !.samplesMoved = @ + len,
                            !.outputTrackId = unit.trackId,
                            !.skipped = Append(@, [trackId |-> unit.trackId, n |-> len])])
          ELSE LET count == Min(Max(len - st.offset, 0), needed - Len(st.outputBuffer))
                   last == count > 0 /\ st.offset + count = len
                   next == [st EXCEPT
                      !.index = IF last THEN @ + 1 ELSE @,
                      !.offset = IF last THEN 0 ELSE @ + count,
                      !.outputBuffer = @ \o SubSeq(unit.buffer, st.offset + 1, st.offset + count),
                      !.samplesMoved = @ + count,
                      !.outputTrackId = unit.trackId,
                      !.reads = IF count > 0
                                THEN Append(@, [trackId |-> unit.trackId,
                                                isSilence |-> unit.isSilence, n |-> count,
                                                index |-> st.index + 1, from |-> st.offset])
                                ELSE @]
               IN IF Len(next.outputBuffer) = needed THEN next
                  ELSE IF count = 0 THEN [next EXCEPT !.stuck = TRUE]
                  ELSE ReadUnits(units, needed, next)

\* the loop's state on entry
ReadStart ==
  [index |-> 0, offset |-> playbackOutputOffset, outputBuffer |-> <<>>,
   samplesMoved |-> 0, outputTrackId |-> NoTrack, reads |-> <<>>, skipped |-> <<>>,
   stuck |-> FALSE]

\* new Float32Array(needed) filled with the samples read: the rest stays 0
ScratchBuffer(samples, needed) ==
  [i \in 1..needed |-> IF i <= Len(samples) THEN samples[i] ELSE 0]

\* (variant: the map is rebuilt with the credited track alone)
CreditTrackAlone(offsets, outputTrackId, n) ==
  IF outputTrackId # NoTrack /\ outputTrackId \in DOMAIN offsets
  THEN [t \in DOMAIN offsets |-> IF t = outputTrackId THEN offsets[t] + n ELSE 0]
  ELSE offsets

\* trackSampleOffsets[id] = trackSampleOffsets[id] || 0; trackSampleOffsets[id] += n
CreditTrack(offsets, outputTrackId, n) ==
  IF outputTrackId # NoTrack /\ outputTrackId \in DOMAIN offsets
  THEN [offsets EXCEPT ![outputTrackId] = @ + n]
  ELSE offsets

\* (variant: the flag, once set, is kept)
InPlaybackAfterSticky(samplesWritten) ==
  isInPlayback \/ samplesWritten > 0

\* if (samplesWritten > 0) this.isInPlayback = true; else this.isInPlayback = false
InPlaybackAfter(samplesWritten) ==
  samplesWritten > 0

\* underrun: Math.max(0, outputChannelData.length - totalSamples)
Underrun(totalSamples) ==
  Max(0, bufferLength - totalSamples)

\* the track of the last sample a render read, for a render that wrote output
PlayingAfter(reads, wrote) ==
  IF wrote /\ reads # <<>> THEN reads[Len(reads)].trackId ELSE session.playing

\* What one uninterrupted process() call computes, before any assignment.
Render ==
  LET serverSamplesTarget == playbackMinBuffers * bufferLength
      totalSamples == TotalSamples(outputBuffers, 1)
      consumableSamples == ConsumableSamples
      consume == /\ Len(outputBuffers) > 0
                 /\ ShouldConsumeBuffer(consumableSamples, serverSamplesTarget)
                 /\ consumableSamples > 0
      playbackRateTarget == determinePlaybackRate(consumableSamples, serverSamplesTarget)
      rate == SmoothedRate(playbackRateTarget)
      needed == RFloor(RMul(RInt(bufferLength), rate))
      walk == ReadUnits(outputBuffers, needed, ReadStart)
      samplesRead == Len(walk.outputBuffer)
      resampledBuffer ==
        resampleAudioData(ScratchBuffer(walk.outputBuffer, needed), bufferLength)
      samplesWritten == Min(Len(resampledBuffer), bufferLength)
  IN [ nonEmpty |-> Len(outputBuffers) > 0,
       serverSamplesTarget |-> serverSamplesTarget,
       totalSamples |-> IF Len(outputBuffers) > 0 THEN totalSamples ELSE 0,
       consumableSamples |-> IF Len(outputBuffers) > 0 THEN consumableSamples ELSE 0,
       consume |-> consume,
       playbackRateTarget |-> IF consume THEN playbackRateTarget ELSE RInt(1),
       rate |-> IF consume THEN rate ELSE playbackRate,
       needed |-> IF consume THEN needed ELSE 0,
       stuck |-> consume /\ walk.stuck,
       walk |-> IF consume THEN walk ELSE ReadStart,
       samplesRead |-> IF consume THEN samplesRead ELSE 0,
       output |-> IF consume /\ samplesRead > 0
                  THEN SubSeq(resampledBuffer, 1, samplesWritten) ELSE <<>>,
       credited |-> IF consume /\ samplesRead > 0 THEN Len(resampledBuffer) ELSE 0 ]

\* (variant: posts stop and returns true)
ProcessInterruptedStaysActive ==
  /\ hasInterrupted
  /\ port' = <<[event |-> "stop"]>>
  /\ quantum' = [NoQuantum EXCEPT !.kind = "stop"]
  /\ session' = [session EXCEPT !.stops = @ + 1, !.last = "process"]
  /\ UNCHANGED <<hasInterrupted, writeTrackId, config, playback, running, hung, call,
                 player, recorder>>

\* (variant: falls through to the isInPlayback update before returning)
ProcessInterruptedFallsThrough ==
  /\ hasInterrupted
  /\ port' = <<[event |-> "stop"]>>
  /\ running' = FALSE
  /\ isInPlayback' = FALSE
  /\ quantum' = [NoQuantum EXCEPT !.kind = "stop"]
  /\ session' = [session EXCEPT !.stops = @ + 1, !.last = "process"]
  /\ UNCHANGED <<hasStarted, hasInterrupted, outputBuffers, writeTrackId, config,
                 playbackRate, playbackOutputOffset, trackSampleOffsets, hung, call,
                 player, recorder>>

\* if (this.hasInterrupted) { postMessage({event: 'stop'}); return false; }
ProcessInterrupted ==
  /\ hasInterrupted
  /\ port' = <<[event |-> "stop"]>>
  /\ running' = FALSE
  /\ quantum' = [NoQuantum EXCEPT !.kind = "stop"]
  /\ session' = [session EXCEPT !.stops = @ + 1, !.last = "process"]
  /\ UNCHANGED <<hasInterrupted, writeTrackId, config, playback, hung, call,
                 player, recorder>>

ProcessRender ==
  \E r \in {Render} :
  LET wrote == r.consume /\ r.samplesRead > 0
      offsets == IF wrote
                 THEN CreditTrack(trackSampleOffsets, r.walk.outputTrackId, r.credited)
                 ELSE trackSampleOffsets
      q == [kind |-> IF r.stuck THEN "hung" ELSE "audio",
            output |-> IF r.stuck THEN <<>> ELSE r.output,
            samplesRead |-> r.samplesRead,
            samplesMoved |-> r.walk.samplesMoved,
            samplesWritten |-> IF r.stuck THEN 0 ELSE Len(r.output),
            consumableSamples |-> r.consumableSamples,
            consumed |-> r.consume,
            hadStarted |-> hasStarted,
            wasInPlayback |-> isInPlayback,
            needed |-> r.needed,
            reads |-> r.walk.reads,
            skipped |-> r.walk.skipped,
            rateTarget |-> r.playbackRateTarget,
            credit |-> IF r.stuck THEN [t \in Tracks |-> 0]
                       ELSE [t \in Tracks |-> offsets[t] - trackSampleOffsets[t]],
            available |-> TotalSamples(outputBuffers, 1) - playbackOutputOffset]
  IN /\ ~hasInterrupted
     /\ playbackRate' = r.rate
     /\ quantum' = q
     /\ IF r.stuck
        THEN /\ hung' = TRUE
             /\ port' = <<>>
             /\ UNCHANGED <<hasStarted, outputBuffers, playbackOutputOffset,
                            isInPlayback, trackSampleOffsets>>
        ELSE /\ hung' = FALSE
             /\ outputBuffers' = IF wrote
                                 THEN SubSeq(outputBuffers, r.walk.index + 1, Len(outputBuffers))
                                 ELSE outputBuffers
             /\ playbackOutputOffset' = IF wrote THEN r.walk.offset ELSE playbackOutputOffset
             /\ trackSampleOffsets' = offsets
             /\ hasStarted' = (hasStarted \/ r.samplesRead > 0)
             /\ isInPlayback' = InPlaybackAfter(Len(r.output))
             /\ port' = <<[event |-> "audio", data |-> r.walk.samplesMoved,
                           underrun |-> Underrun(r.totalSamples)]>>
     /\ session' = [session EXCEPT !.last = "process",
                                   !.playing = PlayingAfter(r.walk.reads, wrote /\ ~r.stuck),
                                   !.moved = IF r.stuck THEN @ ELSE @ + r.walk.samplesMoved]
     /\ UNCHANGED <<hasInterrupted, writeTrackId, config, running, call,
                 player, recorder>>

Process ==
  /\ running
  /\ ~hung
  /\ \/ ProcessInterrupted
     \/ ProcessRender

\* -------------------------------------------------------------- behaviour
Next ==
  \/ \E payload \in WritePayloads : Write(payload)
  \/ \E payload \in RequestPayloads :
       OffsetOrInterrupt(payload.event, payload.trackId)
  \/ \E cfg \in ConfigPayloads : Configure(cfg)
  \/ \E event \in OtherEvents : Unhandled(event)
  \/ Process

Spec == Init /\ [][Next]_vars

\* ------------------------------------------------ the segmenting revision
\* The revision of the worklet whose writeData cuts a write into units of the form
\* [maybe silence | maybe non-silence], whose configure handler merges with ||, and
\* whose process() walks the queue with a for loop.  A unit is
\* [trackId, buffer, movedSamples, silenceSamples].

SegmentWritePayloads ==
  { [buffer |-> <<>>,                    trackId |-> "a"],
    [buffer |-> Tone(128),               trackId |-> "a"],
    [buffer |-> Zeros(64) \o Tone(64),   trackId |-> "a"],
    [buffer |-> Tone(32) \o Zeros(32) \o Tone(32) \o Zeros(96), trackId |-> "b"] }

\* the fields of a configure payload (read from the payload itself)
OrConfigPayloads ==
  { [playbackMinBuffers |-> 1],
    [playbackSkipDigitalSilence |-> TRUE],
    [playbackSkipDigitalSilence |-> FALSE],
    [playbackRateMin |-> Rat(1, 2), playbackRateMax |-> RInt(2)] }

SegInit ==
  /\ hasStarted = FALSE
  /\ hasInterrupted = FALSE
  /\ outputBuffers = <<>>
  /\ writeTrackId = NoTrack
  /\ playbackRateMin = RInt(1)
  /\ playbackRateMax = RInt(1)
  /\ playbackRateAffordance = Rat(1, 2)     \* the fixed 0.5 * serverSamplesTarget
  /\ playbackSmoothing = RInt(0)
  /\ playbackSkipDigitalSilence = FALSE
  /\ playbackMinBuffers = 16
  /\ playbackRate = RInt(1)
  /\ playbackOutputOffset = 0
  /\ isInPlayback = FALSE
  /\ trackSampleOffsets = [t \in Tracks |-> 0]
  /\ running = TRUE
  /\ hung = FALSE
  /\ port = <<>>
  /\ quantum = NoQuantum
  /\ session = [writes |-> 0, configures |-> 0, requests |-> 0, stops |-> 0,
                last |-> "constructor", interrupted |-> FALSE,
                reported |-> [t \in Tracks \cup {NoTrack} |-> <<>>],
                playing |-> NoTrack,
                delivered |-> [t \in Tracks \cup {NoTrack} |-> 0], moved |-> 0]
  /\ call = NoCall
  /\ player = ConnectedPlayer
  /\ recorder = WavRecorder(FALSE)

\* the least element of a non-empty set of integers
Least(set) == CHOOSE x \in set : \A y \in set : x <= y

\* push({buffer: float32Array.slice(from, to), trackId, movedSamples, silenceSamples})
SegmentUnit(float32Array, trackId, from, to, silenceSamples) ==
  [trackId |-> trackId, buffer |-> SubSeq(float32Array, from + 1, to),
   movedSamples |-> to - from, silenceSamples |-> silenceSamples]

\* (variant: zeros left over at the end of the array are not queued)
TrailingSilenceDropped(float32Array, trackId, silenceStartIndex) ==
  <<>>

\* else if (silenceStartIndex < float32Array.length): the zeros left at the end
TrailingSilence(float32Array, trackId, silenceStartIndex) ==
  IF silenceStartIndex < Len(float32Array)
  THEN <<SegmentUnit(float32Array, trackId, silenceStartIndex, Len(float32Array),
                     Len(float32Array) - silenceStartIndex)>>
  ELSE <<>>

RECURSIVE Segments(_, _, _)
\* writeData's scan, taken one pushed unit at a time.  From silenceStartIndex
\* (0-based) the scan runs over zeros to the first non-zero sample
\* (nonSilenceStartIndex) and on to the next zero, where it pushes the unit
\* [silenceStartIndex, i) and starts again at i; at the end of the array it pushes
\* the open block, or the trailing zeros when there are any.
Segments(float32Array, trackId, silenceStartIndex) ==
  LET len == Len(float32Array)
      nonZero == {i \in silenceStartIndex..(len - 1) : float32Array[i + 1] # 0}
  IN IF nonZero = {}
     THEN TrailingSilence(float32Array, trackId, silenceStartIndex)
     ELSE LET nonSilenceStartIndex == Least(nonZero)
              zero == {i \in nonSilenceStartIndex..(len - 1) : float32Array[i + 1] = 0}
          IN IF zero = {}
             THEN <<SegmentUnit(float32Array, trackId, silenceStartIndex, len,
                                nonSilenceStartIndex - silenceStartIndex)>>
             ELSE <<SegmentUnit(float32Array, trackId, silenceStartIndex, Least(zero),
                                nonSilenceStartIndex - silenceStartIndex)>>
                    \o Segments(float32Array, trackId, Least(zero))

SegmentingWriteData(float32Array, trackId) ==
  outputBuffers \o Segments(float32Array, trackId, 0)

SegmentingWrite(payload) ==
  /\ session.writes < MaxWrites
  /\ Commands < MaxCommands
  /\ writeTrackId' = payload.trackId
  /\ outputBuffers' = SegmentingWriteData(Int16ToFloat32(payload.buffer), payload.trackId)
  /\ port' = <<>>
  /\ quantum' = NoQuantum
  /\ session' = [session EXCEPT
                   !.writes = @ + 1, !.last = "write",
                   !.delivered = [@ EXCEPT ![payload.trackId] = @ + Len(payload.buffer)]]
  /\ UNCHANGED <<hasStarted, hasInterrupted, config, playbackRate,
                 playbackOutputOffset, isInPlayback, trackSampleOffsets, running, hung,
                 call,
                 player, recorder>>

\* is the value falsy: false, or 0
Falsy(field, value) ==
  CASE field = "playbackSkipDigitalSilence" -> value = FALSE
    [] field = "playbackMinBuffers" -> value = 0
    [] OTHER -> value.n = 0

\* payload.field || this.field
OrMerged(cfg, field, current) ==
  IF field \in DOMAIN cfg /\ ~Falsy(field, cfg[field]) THEN cfg[field] ELSE current

OrConfigure(cfg) ==
  /\ session.configures < MaxConfigures
  /\ Commands < MaxCommands
  /\ playbackMinBuffers' = OrMerged(cfg, "playbackMinBuffers", playbackMinBuffers)
  /\ playbackRateMin' = OrMerged(cfg, "playbackRateMin", playbackRateMin)
  /\ playbackRateMax' = OrMerged(cfg, "playbackRateMax", playbackRateMax)
  /\ playbackSmoothing' = OrMerged(cfg, "playbackSmoothing", playbackSmoothing)
  /\ playbackSkipDigitalSilence' =
       OrMerged(cfg, "playbackSkipDigitalSilence", playbackSkipDigitalSilence)
  /\ port' = <<>>
  /\ quantum' = NoQuantum
  /\ session' = [session EXCEPT !.configures = @ + 1, !.last = "configure"]
  /\ UNCHANGED <<hasInterrupted, writeTrackId, playbackRateAffordance, playback,
                 running, hung, call,
                 player, recorder>>

\* (variant: only the samples after the silence prefix count)
UnitContributionNonSilent(unit) ==
  unit.movedSamples - unit.silenceSamples

\* consumableSamples += movedSamples
UnitContribution(unit) ==
  unit.movedSamples

RECURSIVE CountConsumable(_, _, _)
\* the skip-silence counting loop: a unit counts once we are in playback, or
\* something was counted already, or it holds a non-silent sample
CountConsumable(units, i, consumableSamples) ==
  IF i > Len(units)
  THEN consumableSamples
  ELSE IF \/ isInPlayback
          \/ consumableSamples # 0
          \/ units[i].movedSamples > units[i].silenceSamples
       THEN CountConsumable(units, i + 1, consumableSamples + UnitContribution(units[i]))
       ELSE CountConsumable(units, i + 1, consumableSamples)

RECURSIVE TotalMoved(_, _)
\* the sum of movedSamples over units i..Len(units)
TotalMoved(units, i) ==
  IF i > Len(units) THEN 0 ELSE units[i].movedSamples + TotalMoved(units, i + 1)

\* let consumableSamples = 0, then one of the two loops
SegmentConsumableSamples ==
  IF playbackSkipDigitalSilence
  THEN CountConsumable(outputBuffers, 1, 0)
  ELSE TotalMoved(outputBuffers, 1)

\* if (movedSamples === silenceSamples && outputBufferOffset === 0), skipping enabled
SkipsSegment(unit, outputBufferOffset) ==
  /\ playbackSkipDigitalSilence
  /\ unit.movedSamples = unit.silenceSamples
  /\ outputBufferOffset = 0

\* outputBufferIndex when the for loop is left by `break`: the ++ is not run
IndexAfterBreak(index, offset) ==
  index

RECURSIVE ReadSegments(_, _, _)
\* The for loop over the units, one unit per step; st as in ReadUnits.  The inner
\* loop sets outputBufferOffset to 0 when it reads a unit's last sample; the index
\* moves on only through the loop's ++, which a break does not run.
ReadSegments(units, needed, st) ==
  IF st.index >= Len(units)
  THEN st
  ELSE LET unit == units[st.index + 1]
           len == Len(unit.buffer)
       IN IF SkipsSegment(unit, st.offset)
          THEN ReadSegments(units, needed,
                 [st EXCEPT !.index = @ + 1,
                            !.samplesMoved = @ + unit.movedSamples,
                            !.outputTrackId = unit.trackId,
                            !.skipped = Append(@, [trackId |-> unit.trackId,
                                                   n |-> unit.movedSamples])])
          ELSE LET count == Min(Max(len - st.offset, 0), needed - Len(st.outputBuffer))
                   last == count > 0 /\ st.offset + count = len
                   next == [st EXCEPT
                      !.offset = IF last THEN 0 ELSE @ + count,
                      !.outputBuffer = @ \o SubSeq(unit.buffer, st.offset + 1, st.offset + count),
                      !.samplesMoved = @ + count,
                      !.outputTrackId = unit.trackId,
                      !.reads = IF count > 0
                                THEN Append(@, [trackId |-> unit.trackId,
                                                isSilence |-> unit.movedSamples = unit.silenceSamples,
                                                n |-> count,
                                                index |-> st.index + 1, from |-> st.offset])
                                ELSE @]
               IN IF Len(next.outputBuffer) = needed
                  THEN [next EXCEPT !.index = IndexAfterBreak(@, next.offset)]
                  ELSE ReadSegments(units, needed, [next EXCEPT !.index = @ + 1])

\* const playbackRate = 1.0, assigned again inside `if (playbackRateMin <
\* playbackRateMax)`: the assignment to a const binding throws a TypeError
RateBlockThrows ==
  RLt(playbackRateMin, playbackRateMax)

\* this.playbackRate when the rate block throws: the first assignment to the const
\* (delta beyond half the target) throws before anything is stored; otherwise
\* `playbackRate = this.playbackRate = Math.min(...)` stores the clamped 1.0 first
RateAfterThrow(consumableSamples, serverSamplesTarget) ==
  IF 2 * Abs(consumableSamples - serverSamplesTarget) > serverSamplesTarget
  THEN playbackRate
  ELSE RMin(playbackRateMax, RMax(playbackRateMin, RInt(1)))

\* What one uninterrupted process() call of this revision computes.
SegmentRender ==
  LET serverSamplesTarget == playbackMinBuffers * bufferLength
      consumableSamples == SegmentConsumableSamples
      consume == /\ Len(outputBuffers) > 0
                 /\ ShouldConsumeBuffer(consumableSamples, serverSamplesTarget)
      throws == consume /\ RateBlockThrows
      needed == bufferLength                       \* Math.floor(128 * 1.0)
      walk == ReadSegments(outputBuffers, needed, ReadStart)
      samplesRead == Len(walk.outputBuffer)
      resampledBuffer ==
        resampleAudioData(ScratchBuffer(walk.outputBuffer, needed), bufferLength)
  IN [ serverSamplesTarget |-> serverSamplesTarget,
       consumableSamples |-> IF Len(outputBuffers) > 0 THEN consumableSamples ELSE 0,
       consume |-> consume,
       throws |-> throws,
       walk |-> IF consume /\ ~throws THEN walk ELSE ReadStart,
       samplesRead |-> IF consume /\ ~throws THEN samplesRead ELSE 0,
       output |-> IF consume /\ ~throws /\ samplesRead > 0
                  THEN SubSeq(resampledBuffer, 1, Min(Len(resampledBuffer), bufferLength))
                  ELSE <<>>,
       credited |-> IF consume /\ ~throws /\ samplesRead > 0
                    THEN Len(resampledBuffer) ELSE 0 ]

ProcessSegmentedRender ==
  \E r \in {SegmentRender} :
  LET wrote == r.samplesRead > 0
      offsets == IF wrote
                 THEN CreditTrack(trackSampleOffsets, r.walk.outputTrackId, r.credited)
                 ELSE trackSampleOffsets
      q == [kind |-> IF r.throws THEN "throw" ELSE "audio",
            output |-> r.output,
            samplesRead |-> r.samplesRead,
            samplesMoved |-> r.walk.samplesMoved,
            samplesWritten |-> Len(r.output),
            consumableSamples |-> r.consumableSamples,
            consumed |-> r.consume,
            hadStarted |-> hasStarted,
            wasInPlayback |-> isInPlayback,
            needed |-> IF r.consume /\ ~r.throws THEN bufferLength ELSE 0,
            reads |-> r.walk.reads,
            skipped |-> r.walk.skipped,
            rateTarget |-> RInt(1),
            credit |-> [t \in Tracks |-> offsets[t] - trackSampleOffsets[t]],
            available |-> TotalMoved(outputBuffers, 1) - playbackOutputOffset]
  IN /\ ~hasInterrupted
     /\ quantum' = q
     /\ IF r.throws
        THEN /\ playbackRate' = RateAfterThrow(r.consumableSamples, r.serverSamplesTarget)
             /\ running' = FALSE
             /\ port' = <<>>
             /\ UNCHANGED <<hasStarted, outputBuffers, playbackOutputOffset,
                            isInPlayback, trackSampleOffsets>>
        ELSE /\ outputBuffers' = IF wrote
                                 THEN SubSeq(outputBuffers, r.walk.index + 1, Len(outputBuffers))
                                 ELSE outputBuffers
             /\ playbackOutputOffset' = IF wrote THEN r.walk.offset ELSE playbackOutputOffset
             /\ trackSampleOffsets' = offsets
             /\ hasStarted' = (hasStarted \/ r.walk.samplesMoved > 0)
             /\ isInPlayback' = InPlaybackAfter(Len(r.output))
             /\ port' = IF r.walk.samplesMoved > 0
                        THEN <<[event |-> "audio", data |-> r.walk.samplesMoved]>>
                        ELSE <<>>
             /\ UNCHANGED <<playbackRate, running>>
     /\ session' = [session EXCEPT !.last = "process",
                                   !.playing = PlayingAfter(r.walk.reads, wrote),
                                   !.moved = IF r.throws THEN @
                                             ELSE @ + r.walk.samplesMoved]
     /\ UNCHANGED <<hasInterrupted, writeTrackId, config, hung, call,
                 player, recorder>>

\* the samples credited to all tracks so far
RECURSIVE Credited(_)
Credited(tracks) ==
  IF tracks = {} THEN 0
  ELSE LET t == CHOOSE t \in tracks : TRUE
       IN trackSampleOffsets[t] + Credited(tracks \ {t})

ProcessSegmented ==
  /\ running
  /\ Credited(Tracks) < MaxQuanta * bufferLength
  /\ \/ ProcessInterrupted
     \/ ProcessSegmentedRender

SegNext ==
  \/ \E payload \in SegmentWritePayloads : SegmentingWrite(payload)
  \/ \E payload \in RequestPayloads :
       OffsetOrInterrupt(payload.event, payload.trackId)
  \/ \E cfg \in OrConfigPayloads : OrConfigure(cfg)
  \/ \E event \in OtherEvents : Unhandled(event)
  \/ ProcessSegmented

SegSpec == SegInit /\ [][SegNext]_vars

\* ------------------------------------------- utility functions on their own
\* sample values for resampleAudioData, in units of 1/60 of full scale: every
\* interpolation between two of them with a target length up to 5 is exact
SampleValues == {-60, 0, 60}

SampleArrays == UNION {[1..len -> SampleValues] : len \in 1..MaxInput}

ResampleCalls ==
  {[fn |-> "resampleAudioData", float32Array |-> x, targetSamples |-> n, done |-> FALSE]
     : x \in SampleArrays, n \in 1..MaxTarget}

\* samples k/d of [-1, 1]
UnitSamples ==
  {x \in {Rat(k, d) : k \in -MaxDenominator..MaxDenominator, d \in 1..MaxDenominator}
     : RLe(RAbs(x), RInt(1))}

RoundTripCalls ==
  {[fn |-> "floatTo16BitPCM", float32Array |-> <<x>>, done |-> FALSE] : x \in UnitSamples}

\* arrays of zero and non-zero samples, the empty one included
SegmentArrays == UNION {[1..len -> {0, 60}] : len \in 0..MaxSegmentInput}

SegmentCalls ==
  {[fn |-> "writeData", float32Array |-> x, done |-> FALSE] : x \in SegmentArrays}

\* determinePlaybackRate(availableSamples, targetSamples), for a target of one
\* sample, of two, and of one quantum
RateCalls ==
  {[fn |-> "determinePlaybackRate", availableSamples |-> c, targetSamples |-> t,
    done |-> FALSE] : c \in 0..MaxAvailable, t \in {1, 2, bufferLength}}

\* configurations of the rate: bounds too wide to clamp (with and without
\* affordance), narrow bounds, equal bounds, and playbackRateMin above playbackRateMax
RateConfigPayloads ==
  { [playbackRateMin |-> Rat(1, 100), playbackRateMax |-> RInt(100),
     playbackRateAffordance |-> Rat(1, 5)],
    [playbackRateMin |-> Rat(1, 100), playbackRateMax |-> RInt(100),
     playbackRateAffordance |-> RInt(0)],
    [playbackRateMin |-> Rat(9, 10), playbackRateMax |-> Rat(11, 10),
     playbackRateAffordance |-> Rat(1, 2)],
    [playbackRateMin |-> RInt(2), playbackRateMax |-> RInt(2)],
    [playbackRateMin |-> RInt(2), playbackRateMax |-> RInt(1)] }

UtilInit ==
  /\ Constructed
  /\ player = ConnectedPlayer
  /\ recorder = WavRecorder(FALSE)
  /\ call \in ResampleCalls \cup RoundTripCalls \cup SegmentCalls \cup RateCalls

\* resampleAudioData(float32Array, targetSamples) returns
CallResample ==
  /\ call.fn = "resampleAudioData"
  /\ ~call.done
  /\ call' = [fn |-> call.fn, float32Array |-> call.float32Array,
               targetSamples |-> call.targetSamples, done |-> TRUE,
               result |-> resampleAudioData(call.float32Array, call.targetSamples),
               read |-> IF call.targetSamples = Len(call.float32Array) THEN {}
                        ELSE UNION {ReadIndices(Len(call.float32Array),
                                                call.targetSamples, i)
                                      : i \in 0..(call.targetSamples - 1)}]
  /\ UNCHANGED <<hasInterrupted, writeTrackId, config, playback, running, hung, port,
                 quantum, session, player, recorder>>

\* floatTo16BitPCM(float32Array) returns and the 'write' handler decodes its result
CallRoundTrip ==
  /\ call.fn = "floatTo16BitPCM"
  /\ ~call.done
  /\ LET int16Array == floatTo16BitPCM(call.float32Array)
     IN call' = [fn |-> call.fn, float32Array |-> call.float32Array, done |-> TRUE,
                 int16Array |-> int16Array,
                 decoded |-> Int16ToFloat32(int16Array)]
  /\ UNCHANGED <<hasInterrupted, writeTrackId, config, playback, running, hung, port,
                 quantum, session, player, recorder>>

\* the segmenting writeData(float32Array, trackId) returns: the units it pushed
CallWriteData ==
  /\ call.fn = "writeData"
  /\ ~call.done
  /\ call' = [fn |-> call.fn, float32Array |-> call.float32Array, done |-> TRUE,
               pushed |-> Segments(call.float32Array, "a", 0)]
  /\ UNCHANGED <<hasInterrupted, writeTrackId, config, playback, running, hung, port,
                 quantum, session, player, recorder>>

\* the engine is configured before determinePlaybackRate is called
ConfigureRate(cfg) ==
  /\ call.fn = "determinePlaybackRate"
  /\ ~call.done
  /\ Configure(cfg)

\* determinePlaybackRate(availableSamples, targetSamples) returns
CallDeterminePlaybackRate ==
  /\ call.fn = "determinePlaybackRate"
  /\ ~call.done
  /\ call' = [fn |-> call.fn, availableSamples |-> call.availableSamples,
               targetSamples |-> call.targetSamples, done |-> TRUE,
               result |-> determinePlaybackRate(call.availableSamples,
                                                call.targetSamples)]
  /\ UNCHANGED <<hasInterrupted, writeTrackId, config, playback, running, hung, port,
                 quantum, session, player, recorder>>

UtilNext ==
  \/ \E cfg \in RateConfigPayloads : ConfigureRate(cfg)
  \/ CallDeterminePlaybackRate
  \/ CallResample
  \/ CallRoundTrip
  \/ CallWriteData

UtilSpec == UtilInit /\ [][UtilNext]_vars

\* ------------------------------------------------------- WavStreamPlayer
\* The player and its worklet.  A command the player posts is handled by the
\* worklet later, in posting order: the worklet has handled the first Commands
\* entries of player.posted.  A message the worklet posts is in port until the
\* player's onmessage handler has taken it.

\* everything that belongs to the worklet
worklet == <<hasInterrupted, writeTrackId, config, playback, running, hung, port,
             quantum, session>>

\* the samples the constructor's playbackMinBuffers asks for before playback
PreRoll == 16 * bufferLength

\* the track of the latest write posted to this.stream: the engine's writeTrackId
\* once it has handled what was posted
LastWritten ==
  LET writes == {i \in 1..Len(player.posted) : player.posted[i].event = "write"}
  IN IF writes = {} THEN NoTrack
     ELSE player.posted[CHOOSE i \in writes : \A j \in writes : j <= i].trackId

\* add16BitPCM(arrayBuffer, trackId): a null trackId stands for any non-string
PlayerWritePayloads ==
  { [buffer |-> Tone(PreRoll), trackId |-> "a"],
    [buffer |-> Tone(64), trackId |-> "b"],
    [buffer |-> Tone(64), trackId |-> NoTrack] }

\* (variant: the player does not look at interruptedTrackIds)
IsInterruptedTrackNever(trackId) ==
  FALSE

\* this.interruptedTrackIds[trackId]
IsInterruptedTrack(trackId) ==
  trackId \in player.interruptedTrackIds

\* { event: 'write', buffer, trackId }
WriteCommand(payload) ==
  [event |-> "write", buffer |-> payload.buffer, trackId |-> payload.trackId]

RequestsPosted ==
  Cardinality({i \in 1..Len(player.posted) :
                 player.posted[i].event \in {"offset", "interrupt"}})

\* new AudioWorkletNode(context, 'stream_processor'): the constructor of the
\* processor runs again and the node gets a port of its own
StartsWorklet ==
  /\ hasStarted' = FALSE
  /\ hasInterrupted' = FALSE
  /\ outputBuffers' = <<>>
  /\ writeTrackId' = NoTrack
  /\ playbackRateMin' = RInt(1)
  /\ playbackRateMax' = RInt(1)
  /\ playbackRateAffordance' = Rat(2, 10)
  /\ playbackSmoothing' = Rat(9, 10)
  /\ playbackSkipDigitalSilence' = TRUE
  /\ playbackMinBuffers' = 16
  /\ playbackRate' = RInt(1)
  /\ playbackOutputOffset' = 0
  /\ isInPlayback' = FALSE
  /\ trackSampleOffsets' = [t \in Tracks |-> 0]
  /\ running' = TRUE
  /\ hung' = FALSE
  /\ port' = <<>>
  /\ quantum' = NoQuantum
  /\ session' = [writes |-> 0, configures |-> 0, requests |-> 0, stops |-> 0,
                 last |-> "constructor", interrupted |-> FALSE,
                 reported |-> [t \in Tracks \cup {NoTrack} |-> <<>>],
                 playing |-> NoTrack,
                 delivered |-> [t \in Tracks \cup {NoTrack} |-> 0], moved |-> 0]

Add16BitPCM(payload) ==
  \/ /\ payload.trackId = NoTrack                \* throw 'trackId must be a string'
     /\ UNCHANGED <<worklet, call, player, recorder>>
  \/ /\ payload.trackId # NoTrack
     /\ IsInterruptedTrack(payload.trackId)      \* return
     /\ player' = [player EXCEPT !.dropped = @ \cup {payload.trackId}]
     /\ UNCHANGED <<worklet, call, recorder>>
  \/ /\ payload.trackId # NoTrack
     /\ ~IsInterruptedTrack(payload.trackId)
     /\ player.stream
     /\ player.sent < MaxPosted
     /\ player' = [player EXCEPT
                      !.posted = Append(@, WriteCommand(payload)),
                      !.sent = @ + 1,
                      !.late = IF payload.trackId \in player.barred
                               THEN @ \cup {Len(player.posted) + 1} ELSE @]
     /\ UNCHANGED <<worklet, call, recorder>>
  \/ /\ payload.trackId # NoTrack
     /\ ~IsInterruptedTrack(payload.trackId)
     /\ ~player.stream                           \* this._start(): a new node
     /\ player.sent < MaxPosted
     /\ StartsWorklet
     /\ player' = [player EXCEPT !.stream = TRUE,
                                 !.engines = @ + 1,
                                 !.posted = <<WriteCommand(payload)>>,
                                 !.sent = @ + 1,
                                 !.late = IF payload.trackId \in player.barred
                                          THEN {1} ELSE {}]
     /\ UNCHANGED <<call, recorder>>

\* payload.config of the configure() calls
PlayerConfigPayloads ==
  { [playbackMinBuffers |-> 1] }

\* configure(config)
PlayerConfigure(cfg) ==
  \/ /\ player.stream
     /\ player.sent < MaxPosted
     /\ player' = [player EXCEPT
                      !.posted = Append(@, [event |-> "configure", config |-> cfg]),
                      !.sent = @ + 1,
                      !.configured = @ \cup {cfg}]
     /\ UNCHANGED <<worklet, call, recorder>>
  \/ /\ ~player.stream                           \* throw 'Not connected, ...'
     /\ player' = [player EXCEPT !.notConnected = TRUE]
     /\ UNCHANGED <<worklet, call, recorder>>

\* getTrackSampleOffset(interrupt) up to its polling loop
GetTrackSampleOffset(interrupt) ==
  \/ /\ ~player.stream                           \* return null
     /\ UNCHANGED <<worklet, call, player, recorder>>
  \/ /\ player.stream
     /\ RequestsPosted < MaxRequests
     /\ player.sent < MaxPosted
     /\ LET requestId == RequestsPosted + 1
        IN player' = [player EXCEPT
                        !.posted = Append(@, [event |-> IF interrupt THEN "interrupt"
                                                        ELSE "offset",
                                              requestId |-> requestId]),
                        !.sent = @ + 1,
                        !.barred = IF interrupt /\ LastWritten # NoTrack
                                   THEN @ \cup {LastWritten} ELSE @,
                        !.waiting = @ \cup {[engine |-> player.engines,
                                             requestId |-> requestId,
                                             interrupt |-> interrupt]}]
     /\ UNCHANGED <<worklet, call, recorder>>

\* the worklet has posted an offset or stop event that streamNode.port.onmessage
\* has not handled yet
Pending ==
  /\ port # <<>>
  /\ \/ /\ port[1].event = "offset"
        /\ ~\E r \in player.trackSampleOffsets :
              r.engine = player.engines /\ r.requestId = port[1].requestId
     \/ /\ port[1].event = "stop"
        /\ player.stream

\* the worklet handles the next command the player posted
WorkletReceives ==
  /\ ~Pending
  /\ Commands < Len(player.posted)
  /\ LET command == player.posted[Commands + 1]
     IN CASE command.event = "write" ->
               Write([buffer |-> command.buffer, trackId |-> command.trackId])
          [] command.event = "configure" -> Configure(command.config)
          [] OTHER -> OffsetOrInterrupt(command.event, NoTrack)

WorkletProcess ==
  /\ ~Pending
  /\ hasInterrupted \/ Credited(Tracks) < MaxPlayed * bufferLength
  /\ Process

\* streamNode.port.onmessage for 'offset' and 'stop' ('audio' goes to the callback)
StreamOnMessage ==
  /\ Pending
  /\ player' = IF port[1].event = "offset"
               THEN [player EXCEPT
                       !.trackSampleOffsets =
                          @ \cup {[engine |-> player.engines,
                                   requestId |-> port[1].requestId,
                                   trackId |-> port[1].trackId,
                                   offset |-> port[1].offset]}]
               ELSE [player EXCEPT !.stream = FALSE]
  /\ UNCHANGED <<worklet, call, recorder>>

\* the polling loop of getTrackSampleOffset finds its response and returns it
Resolves ==
  \E w \in player.waiting : \E r \in player.trackSampleOffsets :
    /\ r.engine = w.engine
    /\ r.requestId = w.requestId
    /\ LET marked == IF w.interrupt /\ r.trackId # NoTrack THEN {r.trackId} ELSE {}
       IN player' = [player EXCEPT
                       !.waiting = @ \ {w},
                       !.interruptedTrackIds = @ \cup marked,
                       !.resolved = @ \cup marked]
    /\ UNCHANGED <<worklet, call, recorder>>

PlayerNext ==
  \/ \E payload \in PlayerWritePayloads : Add16BitPCM(payload)
  \/ \E interrupt \in BOOLEAN : GetTrackSampleOffset(interrupt)
  \/ \E cfg \in PlayerConfigPayloads : PlayerConfigure(cfg)
  \/ WorkletReceives
  \/ WorkletProcess
  \/ StreamOnMessage
  \/ Resolves

PlayerSpec == Init /\ [][PlayerNext]_vars

\* ---------------------------------------------------------------- claims
\* The step just taken was a process() call / posted an event of the given name.
PostedAfter(name) == \E i \in 1..Len(port') : port'[i].event = name

\* the latch of an uninterrupted render, from the flags it started with
LatchWasOff ==
  IF playbackSkipDigitalSilence THEN ~quantum.wasInPlayback ELSE ~quantum.hadStarted

\* C1  Minimum pre-roll: an uninterrupted render that starts with the consumption
\* latch off (isInPlayback when skipping silence, hasStarted otherwise) writes
\* samples to the output quantum only if the consumableSamples it computed is at
\* least playbackMinBuffers * 128.
C1_MinimumPreRoll ==
  (quantum.kind = "audio" /\ LatchWasOff /\ quantum.samplesWritten > 0)
    => quantum.consumableSamples >= playbackMinBuffers * bufferLength

\* a render that begins playback: latch off, samples written
C1_Witness ==
  /\ quantum.kind = "audio"
  /\ LatchWasOff
  /\ quantum.samplesWritten > 0

\* C2  Interrupt protocol: handling an interrupt command posts the offset event
\* carrying its requestId (and, while the engine is live, no stop yet); the next
\* process() call posts exactly the stop event and returns false; no more than one
\* stop is ever posted, and only after an interrupt was handled; once an interrupt
\* was handled no audio event is posted and no output sample is written.
C2_Step ==
  /\ (session'.requests # session.requests /\ session'.last = "interrupt")
       => /\ port' = <<[event |-> "offset", requestId |-> session'.requests,
                        trackId |-> port'[1].trackId, offset |-> port'[1].offset]>>
          /\ session'.stops = session.stops
  /\ (session.interrupted /\ session'.last = "process")
       => /\ port' = <<[event |-> "stop"]>>
          /\ ~running'
          /\ session.stops = 0 /\ session'.stops = 1
  /\ session'.stops <= 1
  /\ session'.stops # session.stops => session.interrupted
  /\ session.interrupted
       => /\ ~PostedAfter("audio")
          /\ quantum'.samplesWritten = 0
          /\ quantum'.output = <<>>

C2_InterruptProtocol == [][C2_Step]_vars

\* the engine stopped after an interrupt, with audio still queued
C2_Witness ==
  /\ session.interrupted
  /\ session.stops = 1
  /\ ~running
  /\ port = <<[event |-> "stop"]>>
  /\ Len(outputBuffers) > 0

\* C3  No graceful drain: a process() call made while hasInterrupted is set writes
\* nothing to the output quantum and leaves the queue, playbackOutputOffset,
\* playbackRate, hasStarted, isInPlayback and trackSampleOffsets unchanged.
C3_Step ==
  (hasInterrupted /\ session'.last = "process")
    => /\ quantum'.output = <<>>
       /\ quantum'.samplesWritten = 0
       /\ UNCHANGED <<outputBuffers, playbackOutputOffset, playbackRate, hasStarted,
                      isInPlayback, trackSampleOffsets>>

C3_NoGracefulDrain == [][C3_Step]_vars

\* an interrupted render that found playback under way and samples part-consumed
C3_Witness ==
  /\ quantum.kind = "stop"
  /\ isInPlayback
  /\ playbackOutputOffset > 0
  /\ Len(outputBuffers) > 0

\* C4  hasInterrupted is sticky: once set, no command and no render clears it.
C4_InterruptedSticky == [][hasInterrupted => hasInterrupted']_vars

\* commands and a render handled after the interrupt, the flag still set
C4_Witness ==
  /\ hasInterrupted
  /\ ~running
  /\ session.last \in {"offset", "write", "configure"}

\* C5  With skipSilence false, a queue holding at least playbackMinBuffers * 128
\* samples makes the next uninterrupted process() call set hasStarted, and
\* hasStarted, once true, stays true.
C5_Step ==
  /\ hasStarted => hasStarted'
  /\ (/\ ~playbackSkipDigitalSilence
      /\ ~hasInterrupted
      /\ TotalSamples(outputBuffers, 1) >= playbackMinBuffers * bufferLength
      /\ session'.last = "process")
       => hasStarted'

C5_StartsOnceBuffered == [][C5_Step]_vars

RECURSIVE SumOf(_, _)
\* the sum of the n fields of a sequence of records that satisfy a test on trackId
SumOf(records, tracks) ==
  IF records = <<>> THEN 0
  ELSE (IF Head(records).trackId \in tracks THEN Head(records).n ELSE 0)
         + SumOf(Tail(records), tracks)

\* C6  When skipSilence is true at a render, no sample of a wholly-silent unit is
\* copied into the scratch buffer or the output quantum; the unit's length is
\* counted in samplesMoved but not in the samples read.
C6_SilentUnitNeverCopied ==
  (quantum.kind = "audio" /\ playbackSkipDigitalSilence)
    => /\ \A i \in 1..Len(quantum.reads) : ~quantum.reads[i].isSilence
       /\ quantum.samplesMoved =
            quantum.samplesRead + SumOf(quantum.skipped, Tracks \cup {NoTrack})

NonDecreasing(seq) ==
  \A i, j \in 1..Len(seq) : i <= j => seq[i] <= seq[j]

\* C7  No entry of trackSampleOffsets ever decreases, and the offsets reported by
\* successive offset / interrupt responses for one trackId are non-decreasing.
C7_Step ==
  /\ \A t \in Tracks : trackSampleOffsets'[t] >= trackSampleOffsets[t]
  /\ \A t \in DOMAIN session'.reported : NonDecreasing(session'.reported[t])

C7_OffsetsNeverDecrease == [][C7_Step]_vars

\* two responses for one track, the later one larger
C7_Witness ==
  \E t \in Tracks :
    /\ Len(session.reported[t]) = 2
    /\ session.reported[t][1] < session.reported[t][2]
    /\ session.reported[t][2] = trackSampleOffsets[t]

\* C8  Per-track accounting: in a render whose scratch buffer is the output quantum
\* (128 raw samples needed), each track's entry of trackSampleOffsets grows by the
\* number of output samples read from that track's units.
C8_PerTrackAccounting ==
  (quantum.kind = "audio" /\ quantum.consumed /\ quantum.needed = bufferLength)
    => \A t \in Tracks : quantum.credit[t] = SumOf(quantum.reads, {t})

\* C9  determinePlaybackRate returns a rate within [playbackRateMin, playbackRateMax]
\* whenever playbackRateMin <= playbackRateMax.
C9_RateTargetWithinBounds ==
  (quantum.consumed /\ RLe(playbackRateMin, playbackRateMax))
    => /\ RLe(playbackRateMin, quantum.rateTarget)
       /\ RLe(quantum.rateTarget, playbackRateMax)

\* C10  The applied (smoothed) playback rate lies within
\* [playbackRateMin, playbackRateMax] of the current configuration in every state.
C10_AppliedRateWithinBounds ==
  /\ RLe(playbackRateMin, playbackRate)
  /\ RLe(playbackRate, playbackRateMax)

\* C11  Between handlers, a non-empty queue has 0 <= playbackOutputOffset < length
\* of the head unit, and an empty queue has playbackOutputOffset = 0.
C11_OffsetWithinHeadUnit ==
  ~hung =>
    IF outputBuffers = <<>>
    THEN playbackOutputOffset = 0
    ELSE /\ 0 <= playbackOutputOffset
         /\ playbackOutputOffset < Len(outputBuffers[1].buffer)

\* C13  An uninterrupted render that finds the queue empty writes nothing to the
\* output quantum, leaves the queue, playbackOutputOffset and trackSampleOffsets
\* unchanged, clears isInPlayback, and posts exactly one audio event, with 0 samples
\* moved and an underrun of 128.
C13_Step ==
  (~hasInterrupted /\ outputBuffers = <<>> /\ session'.last = "process")
    => /\ quantum'.output = <<>>
       /\ quantum'.samplesWritten = 0
       /\ UNCHANGED <<outputBuffers, playbackOutputOffset, trackSampleOffsets>>
       /\ ~isInPlayback'
       /\ port' = <<[event |-> "audio", data |-> 0, underrun |-> bufferLength]>>

C13_EmptyQueueRender == [][C13_Step]_vars

\* playback ran out: a render found the queue empty while isInPlayback was set
C13_Witness ==
  /\ quantum.kind = "audio"
  /\ quantum.wasInPlayback
  /\ quantum.available = 0
  /\ outputBuffers = <<>>
  /\ ~isInPlayback
  /\ port = <<[event |-> "audio", data |-> 0, underrun |-> bufferLength]>>

\* C14  Every uninterrupted render that returns posts exactly one audio event, whose
\* underrun is max(0, 128 - A), A being the queued samples not yet consumed when the
\* render starts (the part of the head unit already played is not counted).
C14_UnderrunIsShortfall ==
  quantum.kind = "audio"
    => /\ Len(port) = 1
       /\ port[1].event = "audio"
       /\ port[1].underrun = Max(0, bufferLength - quantum.available)

\* C17  Every process() call returns: the walk over the queued units always makes
\* progress, so no render is left inside a loop it cannot leave.
C17_RenderTerminates ==
  /\ ~hung
  /\ quantum.kind # "hung"

\* C18  resampleAudioData(x, n) returns exactly n samples for every non-empty x and
\* n >= 1, reads only indices inside x, and returns x itself when n = len(x).
C18_ResampleLength ==
  (call.fn = "resampleAudioData" /\ call.done)
    => /\ Len(call.result) = call.targetSamples
       /\ call.read \subseteq 0..(Len(call.float32Array) - 1)
       /\ call.targetSamples = Len(call.float32Array) => call.result = call.float32Array

\* an upsampling call that interpolated between two samples and clamped at the end
C18_Witness ==
  /\ call.fn = "resampleAudioData"
  /\ call.done
  /\ call.targetSamples > Len(call.float32Array)
  /\ call.read = 0..(Len(call.float32Array) - 1)
  /\ \E i \in 1..Len(call.result) : call.result[i] \notin SampleValues

\* the round-trip error |decode(encode(x)) - x| of the call's one sample
RoundTripError ==
  RAbs(RSub(DecodedValue(call.decoded[1]), call.float32Array[1]))

\* C19  Round trip: for every x in [-1, 1], |decode(encode(x)) - x| <= 1/32768.
C19_RoundTripOneStep ==
  (call.fn = "floatTo16BitPCM" /\ call.done)
    => RLe(RoundTripError, Rat(1, Int16Scale))

\* C19 as amended: the error is below 2/32768 for every x in [-1, 1], and below
\* 1/32768 for x <= 0.
C19_RoundTripTwoSteps ==
  (call.fn = "floatTo16BitPCM" /\ call.done)
    => /\ RLt(RoundTripError, Rat(2, Int16Scale))
       /\ RLe(call.float32Array[1], RInt(0)) => RLt(RoundTripError, Rat(1, Int16Scale))

\* a positive sample that comes back more than one step away
C19_Witness ==
  /\ call.fn = "floatTo16BitPCM"
  /\ call.done
  /\ RLt(RInt(0), call.float32Array[1])
  /\ RLt(Rat(1, Int16Scale), RoundTripError)

\* C16  A command whose event name is none of write, offset, interrupt, configure is
\* not silently ignored: handling it throws, posts no event and leaves the queue,
\* the configuration and the playback state unchanged.
C16_Step ==
  session'.last \in OtherEvents
    => /\ quantum'.kind = "throw"
       /\ port' = <<>>
       /\ UNCHANGED <<hasInterrupted, writeTrackId, config, playback, running>>

C16_UnhandledEventThrows == [][C16_Step]_vars

\* an unknown command handled in mid-playback, with samples still queued
C16_Witness ==
  /\ session.last \in OtherEvents
  /\ quantum.kind = "throw"
  /\ isInPlayback
  /\ Len(outputBuffers) > 0

\* C12  FIFO, exactly-once consumption: a write only appends at the tail of the
\* queue and a render only removes from its head; the samples a render reads come
\* from successive units, none from before the cursor (head unit,
\* playbackOutputOffset) it started with, and all of them lie before the cursor it
\* leaves, so that no later render reads them again.
C12_Step ==
  /\ session'.last = "write"
       => /\ Len(outputBuffers') >= Len(outputBuffers)
          /\ SubSeq(outputBuffers', 1, Len(outputBuffers)) = outputBuffers
  /\ (session'.last = "process" /\ ~hung')
       => LET removed == Len(outputBuffers) - Len(outputBuffers')
              reads == quantum'.reads
          IN /\ removed >= 0
             /\ outputBuffers' = SubSeq(outputBuffers, removed + 1, Len(outputBuffers))
             /\ \A i \in 1..Len(reads) :
                  /\ reads[i].index = 1 => reads[i].from >= playbackOutputOffset
                  /\ i > 1 => reads[i - 1].index < reads[i].index
                  /\ \/ reads[i].index <= removed
                     \/ /\ reads[i].index = removed + 1
                        /\ reads[i].from + reads[i].n <= playbackOutputOffset'
  /\ session'.last \notin {"write", "process"}
       => UNCHANGED <<outputBuffers, playbackOutputOffset>>

C12_FifoExactlyOnce == [][C12_Step]_vars

\* the value the claim gives a configuration field after a configure command
Provided(cfg, field, current) ==
  IF field \in DOMAIN cfg THEN cfg[field] ELSE current

\* what the claim expects of a configure command carrying cfg
SetsExactly(cfg) ==
  /\ playbackMinBuffers' = Provided(cfg, "playbackMinBuffers", playbackMinBuffers)
  /\ playbackRateMin' = Provided(cfg, "playbackRateMin", playbackRateMin)
  /\ playbackRateMax' = Provided(cfg, "playbackRateMax", playbackRateMax)
  /\ playbackRateAffordance' =
       Provided(cfg, "playbackRateAffordance", playbackRateAffordance)
  /\ playbackSmoothing' = Provided(cfg, "playbackSmoothing", playbackSmoothing)
  /\ playbackSkipDigitalSilence' =
       Provided(cfg, "playbackSkipDigitalSilence", playbackSkipDigitalSilence)
  /\ UNCHANGED <<hasInterrupted, writeTrackId, playback>>

\* the steps of the spread-merge handler
C15_SpreadStep ==
  \A cfg \in ConfigPayloads : Configure(cfg) => SetsExactly(cfg)

\* the steps of the ||-merge handler
C15_OrStep ==
  \A cfg \in OrConfigPayloads : OrConfigure(cfg) => SetsExactly(cfg)

C15_SpreadMerge == [][C15_SpreadStep]_vars

\* C15  A configure command with a partial configuration sets exactly the fields it
\* provides (false and 0 included) and leaves every other configuration field and
\* all playback state unchanged, in the spread-merge and in the ||-merge handler.
C15_Step ==
  C15_SpreadStep /\ C15_OrStep

C15_ConfigureSetsProvidedFields == [][C15_Step]_vars

\* a render of the segmenting revision that starts out of playback, skipping
\* silence, on a queue of one untouched unit [silence prefix | non-silent suffix]
PrefixedUnitRender ==
  /\ session'.last = "process"
  /\ ~hasInterrupted
  /\ playbackSkipDigitalSilence
  /\ ~isInPlayback
  /\ Len(outputBuffers) = 1
  /\ playbackOutputOffset = 0
  /\ "silenceSamples" \in DOMAIN outputBuffers[1]
  /\ 0 < outputBuffers[1].silenceSamples
  /\ outputBuffers[1].silenceSamples < outputBuffers[1].movedSamples

\* C20  With skipSilence true and isInPlayback false, a unit made of a silence
\* prefix and a non-silent suffix adds only its non-silent samples to
\* consumableSamples: one unit of 64 + 64 samples with playbackMinBuffers = 1 gives
\* 64 < 128, so the render does not consume and leaves the unit queued, untouched.
C20_Step ==
  PrefixedUnitRender
    => LET unit == outputBuffers[1]
           nonSilent == unit.movedSamples - unit.silenceSamples
       IN /\ quantum'.consumableSamples = nonSilent
          /\ nonSilent < playbackMinBuffers * bufferLength
               => /\ ~quantum'.consumed
                  /\ UNCHANGED <<outputBuffers, playbackOutputOffset>>

C20_AmendedStep ==
  PrefixedUnitRender
    => LET unit == outputBuffers[1]
       IN /\ quantum'.consumableSamples = unit.movedSamples
          /\ quantum'.consumed = (unit.movedSamples >= playbackMinBuffers * bufferLength)
          /\ (quantum'.consumed /\ quantum'.kind = "audio")
               => /\ quantum'.reads[1].index = 1
                  /\ quantum'.reads[1].from = 0
                  /\ quantum'.reads[1].n = Min(unit.movedSamples, bufferLength)
          /\ ~quantum'.consumed => UNCHANGED <<outputBuffers, playbackOutputOffset>>

RECURSIVE Flattened(_, _)
\* the samples of the units from the i-th on, in queue order
Flattened(units, i) ==
  IF i > Len(units) THEN <<>> ELSE units[i].buffer \o Flattened(units, i + 1)

\* the queued samples not yet consumed: the queue from the cursor on
Unconsumed(units, offset) ==
  LET all == Flattened(units, 1)
  IN SubSeq(all, offset + 1, Len(all))

\* how many samples of a sequence are not 0
NonSilent(samples) ==
  Cardinality({i \in 1..Len(samples) : samples[i] # 0})

\* a render that starts with skipSilence false, equal rate bounds and hasStarted
\* false on a queue holding at least playbackMinBuffers * 128 non-silent samples
BufferedFirstRender ==
  /\ session'.last = "process"
  /\ ~hasInterrupted
  /\ ~playbackSkipDigitalSilence
  /\ playbackRateMin = playbackRateMax
  /\ ~hasStarted
  /\ playbackMinBuffers >= 1
  /\ NonSilent(Unconsumed(outputBuffers, playbackOutputOffset))
       >= playbackMinBuffers * bufferLength

\* C21  With skipSilence false, playbackRateMin = playbackRateMax and hasStarted
\* false, a render on a queue that holds at least playbackMinBuffers * 128
\* unconsumed non-silent samples sets hasStarted and isInPlayback, outputs exactly
\* the first 128 unconsumed samples in order, and consumes them: the next render
\* starts at sample 129.
C21_Step ==
  BufferedFirstRender
    => LET before == Unconsumed(outputBuffers, playbackOutputOffset)
       IN /\ ~hung'
          /\ hasStarted'
          /\ isInPlayback'
          /\ quantum'.output = SubSeq(before, 1, bufferLength)
          /\ Unconsumed(outputBuffers', playbackOutputOffset')
               = SubSeq(before, bufferLength + 1, Len(before))

C21_FirstQuantum == [][C21_Step]_vars

\* the same, on a queue without a zero-length unit
C21_NoEmptyUnitStep ==
  (\A i \in 1..Len(outputBuffers) : Len(outputBuffers[i].buffer) > 0) => C21_Step

C21_FirstQuantumNoEmptyUnit == [][C21_NoEmptyUnitStep]_vars

\* a unit is silenceSamples zeros followed by non-zero samples only, and
\* movedSamples is its length
WellFormedUnit(unit) ==
  /\ unit.movedSamples = Len(unit.buffer)
  /\ 0 <= unit.silenceSamples
  /\ unit.silenceSamples <= unit.movedSamples
  /\ \A i \in 1..Len(unit.buffer) : (unit.buffer[i] = 0) <=> (i <= unit.silenceSamples)

\* C22  Silence segmenter: the units one writeData call appends, concatenated in
\* order, are the input exactly; every unit is silenceSamples zeros followed by
\* movedSamples - silenceSamples non-zero samples, movedSamples being its length;
\* an all-silence input gives one wholly-silent unit and an all-non-silence input
\* one unit with silenceSamples = 0.
C22_SegmentsPartitionInput ==
  (call.fn = "writeData" /\ call.done /\ call.float32Array # <<>>)
    => LET input == call.float32Array
           units == call.pushed
       IN /\ Flattened(units, 1) = input
          /\ \A i \in 1..Len(units) : WellFormedUnit(units[i])
          /\ NonSilent(input) = 0
               => Len(units) = 1 /\ units[1].silenceSamples = units[1].movedSamples
          /\ NonSilent(input) = Len(input)
               => Len(units) = 1 /\ units[1].silenceSamples = 0

\* an input cut into three units, the last one trailing silence
C22_Witness ==
  /\ call.fn = "writeData"
  /\ call.done
  /\ Len(call.pushed) = 3
  /\ call.pushed[1].silenceSamples = 0
  /\ call.pushed[2].silenceSamples > 0
  /\ call.pushed[2].silenceSamples < call.pushed[2].movedSamples
  /\ call.pushed[3].silenceSamples = call.pushed[3].movedSamples

\* C23  A write command carrying zero samples appends no unit to the output queue:
\* the queue is unchanged.
C23_Step ==
  \A payload \in WritePayloads \cup SegmentWritePayloads :
    (Len(payload.buffer) = 0 /\ (Write(payload) \/ SegmentingWrite(payload)))
      => UNCHANGED outputBuffers

C23_EmptyWriteQueuesNothing == [][C23_Step]_vars

\* the engine's own state: everything but the port and the history
engine == <<hasStarted, hasInterrupted, outputBuffers, writeTrackId, config,
            playbackRate, playbackOutputOffset, isInPlayback, trackSampleOffsets,
            running>>

\* C24  Every offset or interrupt command with requestId r produces exactly one
\* offset event carrying r while it is handled; its trackId is payload.trackId,
\* else the trackId of the most recent write; its offset is trackSampleOffsets of
\* that track, or 0 if the track has no entry; an offset command changes no
\* engine state.
C24_Step ==
  \A payload \in RequestPayloads :
    OffsetOrInterrupt(payload.event, payload.trackId)
      => LET r == session.requests + 1
             reported == IF payload.trackId # NoTrack THEN payload.trackId
                         ELSE writeTrackId
             entry == IF reported \in Tracks THEN trackSampleOffsets[reported] ELSE 0
         IN /\ Len(port') = 1
            /\ port'[1] = [event |-> "offset", requestId |-> r,
                           trackId |-> reported, offset |-> entry]
            /\ payload.event = "offset" => UNCHANGED engine

C24_OneOffsetPerRequest == [][C24_Step]_vars

\* an offset command naming a track other than the one written last, which has
\* played, was answered for the named track, which has no entry
C24_Witness ==
  /\ session.last = "offset"
  /\ Len(port) = 1
  /\ port[1].trackId = "a"
  /\ writeTrackId = "b"
  /\ trackSampleOffsets["b"] > 0
  /\ port[1].offset = 0

\* C25  An offset or interrupt request without trackId reports the stream that is
\* playing: the trackId of the response is the track of the samples most recently
\* written to output and the offset is that track's consumed-sample count, also
\* when units of a track written later are queued behind the playing one.
C25_Step ==
  \A payload \in RequestPayloads :
    (/\ payload.trackId = NoTrack
     /\ session.playing # NoTrack
     /\ OffsetOrInterrupt(payload.event, payload.trackId))
      => /\ port'[1].trackId = session.playing
         /\ port'[1].offset = trackSampleOffsets[session.playing]

C25_ReportsPlayingTrack == [][C25_Step]_vars

\* the rate before the clamp, as the claim defines it, for c samples available
\* and a target of t
ReferenceRawRate(c, t) ==
  LET delta == c - t
      ratio == Rat(delta, t)
  IN IF RLe(RInt(Abs(delta)), RMul(playbackRateAffordance, RInt(t)))
     THEN RInt(1)
     ELSE IF delta <= 0
          THEN RAdd(RInt(1), RMax(RNeg(Rat(975, 1000)), ratio))
          ELSE RInv(RSub(RInt(1), RMin(Rat(975, 1000), ratio)))

\* clamp(r, playbackRateMin, playbackRateMax)
ReferenceRate(c, t) ==
  IF RLe(playbackRateMax, playbackRateMin)
  THEN RInt(1)
  ELSE RMin(playbackRateMax, RMax(playbackRateMin, ReferenceRawRate(c, t)))

\* C26  determinePlaybackRate equals the reference: 1.0 when playbackRateMin >=
\* playbackRateMax; otherwise clamp(r, playbackRateMin, playbackRateMax) with r = 1.0
\* within the affordance, 1 + max(-0.975, delta/t) below it and
\* 1/(1 - min(0.975, delta/t)) above it; r is always within [0.025, 40], and so is
\* the value returned when the bounds are too wide to clamp.
C26_RateEqualsReference ==
  (call.fn = "determinePlaybackRate" /\ call.done)
    => LET c == call.availableSamples
           t == call.targetSamples
           r == ReferenceRawRate(c, t)
       IN /\ call.result = ReferenceRate(c, t)
          /\ RLe(Rat(25, 1000), r)
          /\ RLe(r, RInt(40))
          /\ (RLe(playbackRateMin, Rat(25, 1000)) /\ RLe(RInt(40), playbackRateMax))
               => call.result = r

\* the call that returned the largest rate, and the one that returned the smallest
C26_Witness ==
  /\ call.fn = "determinePlaybackRate"
  /\ call.done
  /\ call.targetSamples = bufferLength
  /\ call.result = RInt(40)

C26_WitnessSlowest ==
  /\ call.fn = "determinePlaybackRate"
  /\ call.done
  /\ call.availableSamples = 0
  /\ call.result = Rat(25, 1000)

\* the consumableSamples the claim gives a render that starts in this state
ExpectedConsumable ==
  LET nonSilentUnits ==
        {i \in 1..Len(outputBuffers) : NonSilent(outputBuffers[i].buffer) > 0}
      first == IF ~playbackSkipDigitalSilence \/ isInPlayback THEN 1
               ELSE IF nonSilentUnits = {} THEN Len(outputBuffers) + 1
               ELSE Least(nonSilentUnits)
  IN Len(Flattened(outputBuffers, first)) - playbackOutputOffset

\* C27  consumableSamples: with skipSilence false, the total length of all queued
\* units minus playbackOutputOffset; with skipSilence true and isInPlayback false,
\* the total length of the units from the first non-silent one on, minus
\* playbackOutputOffset (wholly-silent units before it add nothing); with
\* isInPlayback true every queued unit counts.
C27_Step ==
  (session'.last = "process" /\ ~hasInterrupted /\ outputBuffers # <<>>)
    => quantum'.consumableSamples = ExpectedConsumable

C27_ConsumableSamples == [][C27_Step]_vars

\* a render out of playback that skipped a silent unit it had not counted and
\* read from the units it had
C27_Witness ==
  /\ quantum.kind = "audio"
  /\ playbackSkipDigitalSilence
  /\ ~quantum.wasInPlayback
  /\ quantum.skipped # <<>>
  /\ quantum.reads # <<>>
  /\ quantum.consumableSamples < quantum.available

\* C28  Consumption latch.  With skipSilence false, once hasStarted is true every
\* later uninterrupted render with at least one unconsumed queued sample writes a
\* full quantum however far the buffer is below the target.  With skipSilence true
\* the gate is isInPlayback: a render that starts with it false writes output only
\* if consumableSamples >= playbackMinBuffers * 128.
C28_Step ==
  (session'.last = "process" /\ ~hasInterrupted)
    => /\ (/\ ~playbackSkipDigitalSilence
           /\ hasStarted
           /\ Len(Unconsumed(outputBuffers, playbackOutputOffset)) >= 1)
            => /\ ~hung'
               /\ quantum'.samplesWritten = bufferLength
       /\ (/\ playbackSkipDigitalSilence
           /\ ~isInPlayback
           /\ quantum'.samplesWritten > 0)
            => quantum'.consumableSamples >= playbackMinBuffers * bufferLength

C28_ConsumptionLatch == [][C28_Step]_vars

\* the same, on a queue without a zero-length unit
C28_NoEmptyUnitStep ==
  (\A i \in 1..Len(outputBuffers) : Len(outputBuffers[i].buffer) > 0) => C28_Step

C28_ConsumptionLatchNoEmptyUnit == [][C28_NoEmptyUnitStep]_vars

\* C29  After every uninterrupted render isInPlayback is true iff that render
\* wrote at least one sample to the output quantum (it is recomputed each quantum),
\* and hasStarted is true iff some render so far has read at least one raw sample:
\* it is false at first, a render sets it iff it was set or the render read a
\* sample, and nothing else changes it.
C29_Step ==
  /\ (session'.last = "process" /\ ~hasInterrupted /\ ~hung')
       => /\ isInPlayback' <=> quantum'.samplesWritten > 0
          /\ hasStarted' <=> (hasStarted \/ quantum'.samplesRead > 0)
  /\ (session'.last # "process" \/ hasInterrupted)
       => UNCHANGED hasStarted
  /\ session.last = "constructor" => ~hasStarted

C29_FlagsFollowRenders == [][C29_Step]_vars

\* a render that found nothing to write right after one that wrote: isInPlayback
\* is false again, hasStarted still true
C29_Witness ==
  /\ quantum.kind = "audio"
  /\ quantum.wasInPlayback
  /\ quantum.hadStarted
  /\ quantum.samplesRead = 0
  /\ quantum.samplesWritten = 0
  /\ ~isInPlayback
  /\ hasStarted

\* C30  Once interrupt() has resolved with a non-empty trackId T, every later
\* add16BitPCM(data, T) posts no write command, starts no new engine and has no
\* effect, for the rest of the player's lifetime (no step takes a trackId out of
\* the interrupted ones); add16BitPCM for any other string trackId posts a write,
\* after starting a fresh engine if the previous one has stopped.
C30_Step ==
  /\ player.resolved \subseteq player'.resolved
  /\ \A payload \in PlayerWritePayloads :
       Add16BitPCM(payload)
         => /\ payload.trackId \in player.resolved
                 => /\ player'.posted = player.posted
                    /\ player'.engines = player.engines
                    /\ player'.stream = player.stream
                    /\ UNCHANGED worklet
            /\ (payload.trackId \in Tracks \ player.resolved)
                 => /\ player'.stream
                    /\ player'.posted # <<>>
                    /\ player'.posted[Len(player'.posted)] = WriteCommand(payload)
                    /\ IF player.stream
                       THEN /\ player'.posted = Append(player.posted, WriteCommand(payload))
                            /\ player'.engines = player.engines
                       ELSE /\ player'.posted = <<WriteCommand(payload)>>
                            /\ player'.engines = player.engines + 1
                            /\ running' /\ ~hasInterrupted'

C30_InterruptedTrackStaysMuted == [][C30_Step]_vars

\* add16BitPCM for the interrupted track returned without effect while a second
\* engine, started by a write for the other track, is live
C30_Witness ==
  /\ player.dropped = {"a"}
  /\ player.resolved = {"a"}
  /\ player.engines = 2
  /\ player.stream
  /\ player.posted = <<WriteCommand([buffer |-> Tone(64), trackId |-> "b"])>>

\* the 1-based index, in the queue a writing render started with, of the last unit
\* its walk visited: the units it dropped, and the head unit it stopped inside
LastVisited ==
  (Len(outputBuffers) - Len(outputBuffers'))
    + (IF playbackOutputOffset' > 0 THEN 1 ELSE 0)

\* C33  In every non-interrupted render the number of samples written to the
\* output quantum is 0 or exactly 128, and it is 128 iff the render read at least
\* one raw sample; a render that writes changes exactly one entry of
\* trackSampleOffsets, that of the last unit visited, and raises it by exactly 128.
C33_Step ==
  (session'.last = "process" /\ ~hasInterrupted)
    => /\ quantum'.samplesWritten \in {0, bufferLength}
       /\ quantum'.samplesWritten = bufferLength <=> quantum'.samplesRead > 0
       /\ quantum'.samplesWritten = bufferLength
            => \A t \in Tracks :
                 trackSampleOffsets'[t] - trackSampleOffsets[t]
                   = IF t = outputBuffers[LastVisited].trackId THEN bufferLength ELSE 0

C33_QuantumAllOrNothing == [][C33_Step]_vars

\* the same, on a queue without a zero-length unit
C33_NoEmptyUnitStep ==
  (\A i \in 1..Len(outputBuffers) : Len(outputBuffers[i].buffer) > 0) => C33_Step

C33_QuantumAllOrNothingNoEmptyUnit == [][C33_NoEmptyUnitStep]_vars

\* C34  With playbackRateMin = playbackRateMax (rate 1.0), trackSampleOffsets[T]
\* never exceeds the number of samples delivered so far by write commands with
\* trackId T, for every track T.
C34_OffsetWithinDelivered ==
  (playbackRateMin = RInt(1) /\ playbackRateMax = RInt(1) /\ playbackRate = RInt(1))
    => \A t \in Tracks : trackSampleOffsets[t] <= session.delivered[t]

\* the samples delivered by all write commands so far
DeliveredInAll ==
  session.delivered["a"] + session.delivered["b"] + session.delivered[NoTrack]

\* C35  Telemetry conservation: the sum of samplesMoved (the data field) of all
\* audio events never exceeds the number of samples delivered by write commands;
\* a queued sample, skipped silent units included, is counted as moved at most once.
C35_MovedWithinDelivered ==
  session.moved <= DeliveredInAll

\* a render from this state would leave every variable as it is: the latest step
\* was a render that read and moved nothing out of playback, and the next one
\* decides the same and applies the same rate
RenderRepeats ==
  /\ ~hasInterrupted
  /\ session.last = "process"
  /\ quantum.kind = "audio"
  /\ ~isInPlayback
  /\ ~quantum.wasInPlayback
  /\ quantum.hadStarted = hasStarted
  /\ LET r == Render
     IN /\ ~r.stuck
        /\ r.samplesRead = 0
        /\ r.walk.samplesMoved = 0
        /\ r.rate = playbackRate
        /\ r.consume = quantum.consumed
        /\ r.needed = quantum.needed
        /\ r.playbackRateTarget = quantum.rateTarget

\* no process() call changes the state any more: the node is no longer active, a
\* call is inside a loop it cannot leave, or a render repeats itself
Settled ==
  ~running \/ hung \/ RenderRepeats

\* a session of the kind the drain claim is about: no interrupt command, no
\* zero-length write, and process() called again and again by the host while the
\* node is active
DrainNext ==
  \/ \E payload \in WritePayloads : Len(payload.buffer) > 0 /\ Write(payload)
  \/ \E cfg \in ConfigPayloads : Configure(cfg)
  \/ Process

DrainSpec ==
  Init /\ [][DrainNext]_vars /\ WF_vars(Process)

\* a render that starts in a settled state changes nothing
SettledStep ==
  Settled => ~Process

SettledRendersChangeNothing == [][SettledStep]_vars

\* the same sessions with the fairness of the render written out: a render that
\* changes the state happens again and again, or the state is settled for good
DrainRuns ==
  Init /\ [][DrainNext]_vars /\ ([]<><<Process>>_vars \/ <>[]Settled)

\* the queue is eventually empty for good
QueueEventuallyDrained ==
  <>[](outputBuffers = <<>>)

\* C36  Drain liveness: if no interrupt is issued, write commands eventually stop,
\* no zero-length write occurs and render keeps being invoked, then the queue is
\* eventually empty: every written sample is eventually read into an output
\* quantum or skipped as silence.  Once the renders of an active node have come to
\* rest (a further render changes nothing), nothing but a new command changes the
\* state, so the queue must be empty by then.
C36_QueueDrainedAtRest ==
  (running /\ ~hung /\ RenderRepeats) => outputBuffers = <<>>

\* the numbers, among the writes the live node is posted, of those passed to
\* add16BitPCM after interrupt() was invoked on their track
LateWrites ==
  { Cardinality({j \in 1..p : player.posted[j].event = "write"}) : p \in player.late }

\* C37  Interrupt race, interrupted track: from the moment interrupt() is invoked
\* while T is the engine's last-written track, no samples passed to add16BitPCM
\* for T after that moment are written to an output quantum, whatever the
\* interleaving of the offset and stop deliveries, the poll timer, the
\* add16BitPCM calls and the worklet's steps.  (Part_000 queues one unit per write,
\* so the unit at queue position k is write number writes - queue length + k.)
C37_Step ==
  quantum'.kind = "audio"
    => \A i \in 1..Len(quantum'.reads) :
         (session.writes - Len(outputBuffers) + quantum'.reads[i].index) \notin LateWrites

C37_NoLateSampleOfInterruptedTrack == [][C37_Step]_vars

\* C38  Interrupt race, other tracks: a write command of add16BitPCM for a track
\* that is not interrupted, posted after interrupt() has been invoked, reaches an
\* engine that has not been interrupted: its samples are not queued in the engine
\* that is about to stop.
C38_Step ==
  (session'.writes = session.writes + 1 /\ writeTrackId' \notin player.barred)
    => ~hasInterrupted

C38_WriteReachesLiveEngine == [][C38_Step]_vars

\* C39  Configuration persistence: after configure(c) has succeeded, an engine that
\* renders audio added through add16BitPCM runs with the fields of c, the fresh
\* engine started after an interrupt included, and configure() on a connected
\* player never throws 'Not connected'.
C39_ConfigurationPersists ==
  /\ ~player.notConnected
  /\ \A cfg \in player.configured :
       (quantum.kind = "audio" /\ quantum.available > 0 /\ Commands = Len(player.posted))
         => playbackMinBuffers = cfg.playbackMinBuffers

\* the first half alone: an engine that has handled every command posted to it
\* renders queued audio with the configured fields
C39_RendersWithConfiguredFields ==
  \A cfg \in player.configured :
    (quantum.kind = "audio" /\ quantum.available > 0 /\ Commands = Len(player.posted))
      => playbackMinBuffers = cfg.playbackMinBuffers

\* ============================================================ WavRecorder
\* The WavRecorder and its AudioProcessor worklet (lib/wav_recorder.js,
\* lib/worklets/audio_processor.js).  A method is invoked at one step, which
\* runs it up to its first await; the worklet's receive, the recorder's
\* port.onmessage and the continuation of the method after the await are steps
\* of their own.  The worklet answers every message with a receipt, so the
\* timeout of _event is never taken.

\* methods invoked on one recorder
MaxCalls == 3
\* calls of one recorder waiting on an await at the same time
MaxOverlap == 2
\* chunks one worklet node stores before it is cleared
MaxChunks == 2
\* frames the call stack has room for
MaxStack == 3

SessionEnded == "Session ended: please call .begin() first"

AlreadyConnected == "Already connected: please call .end() to start a new session"

AlreadyPaused == "Already paused: please call .record() first"

AlreadyRecording == "Already recording: please call .pause() first"

CurrentlyRecording ==
  "Currently recording: please call .pause() first, or call .save(true) to force"

\* WavRecorder.log, entered with the given number of frames on the call stack:
\* "true" when it returns, "RangeError" when a call finds the stack full
RECURSIVE log(_, _)
log(debug, frames) ==
  IF frames >= MaxStack THEN "RangeError"
  ELSE IF debug THEN log(debug, frames + 1)
  ELSE "true"

\* what a statement this.log(...) of a method throws
Logged(r) == IF log(r.debug, 1) = "true" THEN NoError ELSE log(r.debug, 1)

\* getStatus()
getStatus(r) ==
  IF r.processor = 0 THEN "ended"
  ELSE IF ~r.recording THEN "paused"
  ELSE "recording"

\* what each method throws before its first await (NoError: it reaches the await)
BeginThrows(r) == IF r.processor # 0 THEN AlreadyConnected ELSE NoError

\* (variant: pause() does not look at this.recording)
PauseThrowsUnlessEnded(r) ==
  IF r.processor = 0 THEN SessionEnded
  ELSE Logged(r)

PauseThrows(r) ==
  IF r.processor = 0 THEN SessionEnded
  ELSE IF ~r.recording THEN AlreadyPaused
  ELSE Logged(r)

RecordThrows(r, chunkProcessor) ==
  IF r.processor = 0 THEN SessionEnded
  ELSE IF r.recording THEN AlreadyRecording
  ELSE IF chunkProcessor # "function" THEN "chunkProcessor must be a function"
  ELSE Logged(r)

ClearThrows(r) == IF r.processor = 0 THEN SessionEnded ELSE NoError

ReadThrows(r) == IF r.processor = 0 THEN SessionEnded ELSE Logged(r)

SaveThrows(r, force) ==
  IF r.processor = 0 THEN SessionEnded
  ELSE IF ~force /\ r.recording THEN CurrentlyRecording
  ELSE Logged(r)

EndThrows(r) == IF r.processor = 0 THEN SessionEnded ELSE Logged(r)

\* _event(name, {}, node) up to its await: the message posted, the call waiting
Event(r, op, name, node) ==
  [r EXCEPT !.lastEventId = @ + 1,
            !.inbox = Append(@, [node |-> node, event |-> name,
                                 id |-> r.lastEventId]),
            !.pending = @ \cup {[op |-> op, event |-> name, id |-> r.lastEventId,
                                 node |-> node]}]

\* a method is invoked: it throws, or posts its event and waits for the receipt
Invoke(op, error, name) ==
  /\ recorder.calls < MaxCalls
  /\ error = NoError => Cardinality(recorder.pending) < MaxOverlap
  /\ LET r == [recorder EXCEPT !.calls = @ + 1,
                               !.last = [op |-> op, error |-> error]]
     IN recorder' = IF error = NoError THEN Event(r, op, name, recorder.processor)
                    ELSE r
  /\ UNCHANGED <<worklet, call, player>>

\* begin() up to await getUserMedia
Begin ==
  /\ recorder.calls < MaxCalls
  /\ BeginThrows(recorder) = NoError => Cardinality(recorder.pending) < MaxOverlap
  /\ LET r == [recorder EXCEPT !.calls = @ + 1,
                               !.last = [op |-> "begin",
                                         error |-> BeginThrows(recorder)]]
     IN recorder' = IF BeginThrows(recorder) = NoError
                    THEN [r EXCEPT !.pending =
                                      @ \cup {[op |-> "begin", event |-> "getUserMedia",
                                               id |-> recorder.calls, node |-> 0]}]
                    ELSE r
  /\ UNCHANGED <<worklet, call, player>>

\* AudioProcessor.initialize
initialize(node) == [node EXCEPT !.foundAudio = FALSE, !.recording = FALSE,
                                 !.chunks = <<>>]

\* new AudioWorkletNode(context, 'audio_processor'), its source connected
AudioProcessor ==
  initialize([foundAudio |-> FALSE, recording |-> FALSE, chunks |-> <<>>,
              connected |-> TRUE])

\* begin() after an await: getUserMedia or addModule rejected, or the stream
\* stored, or the node created and stored
BeginResumes ==
  \E c \in recorder.pending :
    /\ c.op = "begin"
    /\ \/ recorder' = [recorder EXCEPT
                         !.pending = @ \ {c},
                         !.rejected =
                            @ \cup {[op |-> "begin",
                                     error |-> IF c.event = "getUserMedia"
                                               THEN "Could not start media stream"
                                               ELSE "Could not add audioWorklet module"]}]
       \/ /\ c.event = "getUserMedia"
          /\ recorder' = [recorder EXCEPT
                            !.stream = TRUE,
                            !.pending = (@ \ {c}) \cup {[c EXCEPT !.event = "addModule"]}]
       \/ /\ c.event = "addModule"
          /\ recorder' = [recorder EXCEPT
                            !.pending = @ \ {c},
                            !.nodes = Append(@, AudioProcessor),
                            !.processor = Len(recorder.nodes) + 1]
    /\ UNCHANGED <<worklet, call, player>>

Record ==
  \E chunkProcessor \in {"function", "undefined"} :
    Invoke("record", RecordThrows(recorder, chunkProcessor), "start")

Pause == Invoke("pause", PauseThrows(recorder), "stop")

Clear == Invoke("clear", ClearThrows(recorder), "clear")

Read == Invoke("read", ReadThrows(recorder), "read")

Save == \E force \in BOOLEAN : Invoke("save", SaveThrows(recorder, force), "export")

End == Invoke("end", EndThrows(recorder), "stop")

\* the oldest message of seq for its node: a port delivers in order
Oldest(seq, i) == \A j \in 1..(i - 1) : seq[j].node # seq[i].node

Without(seq, i) == SubSeq(seq, 1, i - 1) \o SubSeq(seq, i + 1, Len(seq))

\* AudioProcessor.receive
receive(node, event) ==
  CASE event = "start" -> [node EXCEPT !.recording = TRUE]
    [] event = "stop" -> [node EXCEPT !.recording = FALSE]
    [] event = "clear" -> initialize(node)
    [] OTHER -> node

\* a node receives a message and posts the receipt
Receives ==
  \E i \in 1..Len(recorder.inbox) :
    /\ Oldest(recorder.inbox, i)
    /\ LET m == recorder.inbox[i]
       IN recorder' = [recorder EXCEPT
                         !.inbox = Without(@, i),
                         !.nodes[m.node] = receive(@, m.event),
                         !.outbox = Append(@, [node |-> m.node, id |-> m.id])]
    /\ UNCHANGED <<worklet, call, player>>

\* processor.port.onmessage: a receipt is stored
ReceiptArrives ==
  \E i \in 1..Len(recorder.outbox) :
    /\ Oldest(recorder.outbox, i)
    /\ recorder' = [recorder EXCEPT
                      !.outbox = Without(@, i),
                      !.eventReceipts = @ \cup {recorder.outbox[i].id}]
    /\ UNCHANGED <<worklet, call, player>>

\* the loop of _event finds its receipt, and the method runs on: to its end, or
\* for end() to its second _event
EventReturns ==
  \E c \in recorder.pending :
    /\ c.op # "begin"
    /\ c.id \in recorder.eventReceipts
    /\ LET r == [recorder EXCEPT !.eventReceipts = @ \ {c.id},
                                 !.pending = @ \ {c}]
           TypeError == [r EXCEPT !.rejected = @ \cup {[op |-> c.op,
                                                        error |-> "TypeError"]}]
       IN recorder' =
            CASE c.op = "record" -> [r EXCEPT !.recording = TRUE]
              [] c.op = "pause" -> [r EXCEPT !.recording = FALSE]
              [] c.op = "end" /\ c.event = "stop" ->
                   \* this.stream.getTracks(), this.log, _event('export')
                   IF ~r.stream THEN [TypeError EXCEPT !.recording = FALSE]
                   ELSE IF Logged(r) # NoError
                   THEN [r EXCEPT !.recording = FALSE,
                                  !.rejected = @ \cup {[op |-> c.op,
                                                        error |-> Logged(r)]}]
                   ELSE Event([r EXCEPT !.recording = FALSE], "end", "export", c.node)
              [] c.op = "end" /\ c.event = "export" ->
                   \* this.processor.disconnect() ... this.processor = null
                   IF r.processor = 0 THEN TypeError
                   ELSE [r EXCEPT !.nodes[r.processor].connected = FALSE,
                                  !.stream = FALSE,
                                  !.processor = 0]
              [] OTHER -> r
    /\ UNCHANGED <<worklet, call, player>>

\* the leading zero samples of an input quantum: none, half of it, all of it
InputQuanta == {0, bufferLength \div 2, bufferLength}

\* AudioProcessor.process on one channel whose first zeros samples are zero:
\* a chunk is its length; sendChunk posts every chunk that is stored
process(node, zeros) ==
  LET foundAudio == node.foundAudio \/ zeros < bufferLength
      sliceIndex == IF node.foundAudio THEN 0 ELSE zeros
  IN IF foundAudio /\ node.recording
     THEN [node EXCEPT !.foundAudio = foundAudio,
                       !.chunks = Append(@, bufferLength - sliceIndex)]
     ELSE [node EXCEPT !.foundAudio = foundAudio]

AudioProcess ==
  \E n \in 1..Len(recorder.nodes) : \E zeros \in InputQuanta :
    /\ recorder.nodes[n].connected
    /\ Len(recorder.nodes[n].chunks) < MaxChunks
    /\ recorder' = [recorder EXCEPT !.nodes[n] = process(@, zeros)]
    /\ UNCHANGED <<worklet, call, player>>

RecorderInit ==
  /\ Constructed
  /\ call = NoCall
  /\ player = ConnectedPlayer
  /\ \E debug \in BOOLEAN : recorder = WavRecorder(debug)

RecorderNext ==
  \/ Begin
  \/ BeginResumes
  \/ Record
  \/ Pause
  \/ Clear
  \/ Read
  \/ Save
  \/ End
  \/ Receives
  \/ ReceiptArrives
  \/ EventReturns
  \/ AudioProcess

RecorderSpec == RecorderInit /\ [][RecorderNext]_vars

\* ------------------------------------------------------------------ C31
\* what getStatus() returns, against the two fields it reads
StatusReflectsFields ==
  /\ getStatus(recorder) = "ended" <=> recorder.processor = 0
  /\ getStatus(recorder) = "paused" <=> (recorder.processor # 0 /\ ~recorder.recording)
  /\ getStatus(recorder) = "recording" <=> (recorder.processor # 0 /\ recorder.recording)

\* the state in which a method is invoked admits it
Admits(op) ==
  CASE op = "begin" -> recorder.processor = 0
    [] op = "record" -> recorder.processor # 0 /\ ~recorder.recording
    [] op = "pause" -> recorder.processor # 0 /\ recorder.recording
    [] OTHER -> recorder.processor # 0

C31_Step ==
  recorder'.calls = recorder.calls + 1
    => /\ recorder'.last.error = NoError => Admits(recorder'.last.op)
       /\ recorder'.last.error # NoError
            => /\ recorder'.processor = recorder.processor
               /\ recorder'.recording = recorder.recording

\* C31: begin() goes ahead only when no processor is attached, record() only with
\* a processor and recording false, pause() only with a processor and recording
\* true, clear(), read(), save() and end() only with a processor; a method invoked
\* in any other state throws and leaves processor and recording as they were; and
\* getStatus() is "ended" exactly when there is no processor, "paused" exactly when
\* there is one and recording is false, "recording" otherwise.
C31_SessionGuards ==
  StatusReflectsFields /\ [][C31_Step /\ StatusReflectsFields']_vars

\* pause() has thrown "Already paused" on a recorder whose session is open
C31_Witness ==
  /\ recorder.last = [op |-> "pause", error |-> AlreadyPaused]
  /\ getStatus(recorder) = "paused"

\* ------------------------------------------------------------------ C32
\* C32: on a recorder constructed with debug true as with debug false, log()
\* returns true, so no method is cut short by an error of log()
C32_DebugCallsComplete ==
  /\ recorder.last.error # "RangeError"
  /\ \A x \in recorder.rejected : x.error # "RangeError"

\* ------------------------------------------------------------------ C40
\* no method is waiting and no message is on its way
Quiet == recorder.pending = {} /\ recorder.inbox = <<>> /\ recorder.outbox = <<>>

\* C40: whenever no command is in flight, the recorder's recording field and the
\* recording flag of the worklet of its processor agree
C40_RecorderAgreesWithWorklet ==
  (Quiet /\ recorder.processor # 0)
    => (recorder.recording <=> recorder.nodes[recorder.processor].recording)

\* a node that handles a clear message goes on recording if it was
C40_ClearStep ==
  \A n \in 1..Len(recorder.nodes) :
    (/\ Len(recorder'.inbox) < Len(recorder.inbox)
     /\ \E i \in 1..Len(recorder.inbox) :
          /\ recorder.inbox[i] = [node |-> n, event |-> "clear",
                                  id |-> recorder.inbox[i].id]
          /\ Oldest(recorder.inbox, i)
          /\ recorder'.inbox = Without(recorder.inbox, i))
      => recorder'.nodes[n].recording = recorder.nodes[n].recording

C40_ClearKeepsRecording == [][C40_ClearStep]_vars

====
